---- MODULE Spec2Model ----
(***************************************************************************)
(* Model of the DYLLABLE peer-discovery protocol (package network):        *)
(*   - the wire-format codec (packet.go): readUntil, readHeaders,          *)
(*     parseHeader, the three packet variants, their String/Bytes and      *)
(*     ParsePacket;                                                        *)
(*   - the discovery engines (discovery.go): DiscoveryService and          *)
(*     LookForNodes with their supervisor, loops and resolution tasks.     *)
(*                                                                         *)
(* A byte is a one-character string; a []byte or Go string is a sequence   *)
(* of bytes.  An error value is a string, "nil" being the nil error.       *)
(***************************************************************************)
EXTENDS Integers, Sequences, FiniteSets, TLC

\* ------------------------------------------------------------------ bytes

CR == "\r"
LF == "\n"
\* the zero byte of a freshly made []byte
NUL == "NUL"

Digits == <<"0", "1", "2", "3", "4", "5", "6", "7", "8", "9">>
HexDigits == Digits \o <<"a", "b", "c", "d", "e", "f">>
UpperHexDigits == Digits \o <<"A", "B", "C", "D", "E", "F">>

Range(s) == {s[i] : i \in DOMAIN s}

\* index (1-based) of the first occurrence of byte b in s, 0 when absent
IndexByte(s, b) ==
    IF \E i \in DOMAIN s : s[i] = b
    THEN CHOOSE i \in DOMAIN s : s[i] = b /\ \A j \in 1..(i - 1) : s[j] # b
    ELSE 0

\* index (1-based) of the last occurrence of byte b in s, 0 when absent
LastIndexByte(s, b) ==
    IF \E i \in DOMAIN s : s[i] = b
    THEN CHOOSE i \in DOMAIN s : s[i] = b /\ \A j \in (i + 1)..Len(s) : s[j] # b
    ELSE 0

\* index (1-based) of the first occurrence of the substring sub in s, 0 when absent
Index(s, sub) ==
    LET hit(i) == SubSeq(s, i, i + Len(sub) - 1) = sub
        starts == 1..(Len(s) - Len(sub) + 1)
    IN  IF \E i \in starts : hit(i)
        THEN CHOOSE i \in starts : hit(i) /\ \A j \in 1..(i - 1) : ~hit(j)
        ELSE 0

\* strings.TrimRight(s, cutset): drop every trailing byte that is in cutset
TrimRight(s, cutset) ==
    LET keep == {i \in DOMAIN s : s[i] \notin cutset}
        last == IF keep = {} THEN 0 ELSE CHOOSE i \in keep : \A j \in keep : j <= i
    IN  SubSeq(s, 1, last)

\* strings.Join(parts, sep)
RECURSIVE Join(_, _)
Join(parts, sep) ==
    IF parts = <<>> THEN <<>>
    ELSE IF Len(parts) = 1 THEN parts[1]
    ELSE parts[1] \o sep \o Join(Tail(parts), sep)

\* fmt's %d of a non-negative integer
RECURSIVE Itoa(_)
Itoa(n) == IF n < 10 THEN <<Digits[n + 1]>> ELSE Itoa(n \div 10) \o <<Digits[(n % 10) + 1]>>

\* lower-case hexadecimal of a non-negative integer, no leading zeros
RECURSIVE Hex(_)
Hex(n) == IF n < 16 THEN <<HexDigits[n + 1]>> ELSE Hex(n \div 16) \o <<HexDigits[(n % 16) + 1]>>

DigitVal(c) == IndexByte(Digits, c) - 1

HexVal(c) == IF IndexByte(HexDigits, c) > 0 THEN IndexByte(HexDigits, c) - 1
             ELSE IndexByte(UpperHexDigits, c) - 1

IsDigit(c) == IndexByte(Digits, c) > 0
IsHex(c) == IndexByte(HexDigits, c) > 0 \/ IndexByte(UpperHexDigits, c) > 0

\* strconv.ParseUint(s, 10, bitSize): digits only (no sign, no blank), value
\* below 2^bitSize; the accumulator saturates one above the maximum
RECURSIVE AccumulateUint(_, _, _)
AccumulateUint(s, acc, max) ==
    IF s = <<>> THEN acc
    ELSE LET next == acc * 10 + DigitVal(Head(s))
         IN  AccumulateUint(Tail(s), IF next > max THEN max + 1 ELSE next, max)

ParseUint(s, bitSize) ==
    LET max == 2 ^ bitSize - 1
        n == AccumulateUint(s, 0, max)
    IN  IF s = <<>> \/ \E i \in DOMAIN s : ~IsDigit(s[i])
        THEN [val |-> 0, err |-> "strconv: invalid syntax"]
        ELSE IF n > max THEN [val |-> max, err |-> "strconv: value out of range"]
        ELSE [val |-> n, err |-> "nil"]

\* ------------------------------------------------------- protocol constants

preffix == <<"D", "Y", "L", "L", "A", "B", "L", "E", "-">>
actionPreffix == preffix \o <<"A", "C", "T", "I", "O", "N", "-">>
discoveryIdentifier == preffix \o <<"D", "I", "S", "C", "O", "V", "E", "R", "Y">>

headerSeparator == <<CR, LF>>
endPacket == <<CR, LF>>

requestDiscoveryType == <<"D", "I", "S", "C", "O", "V", "E", "R", "Y">>
responseDiscoveryType == <<"R", "U", "N", "N", "I", "N", "G", "-", "A", "P", "P">>

requestActionIdentifier == actionPreffix \o <<"R", "E", "Q", "U", "E", "S", "T">>
responseActionIdentifier == actionPreffix \o <<"R", "E", "S", "P", "O", "N", "S", "E">>

\* header keys and the key/value separator of a header line
KeyTYPE == <<"T", "Y", "P", "E">>
KeyHOST == <<"H", "O", "S", "T">>
KeyREQUESTUUID == <<"R", "E", "Q", "U", "E", "S", "T", "-", "U", "U", "I", "D">>
KeyACTIONID == <<"A", "C", "T", "I", "O", "N", "-", "I", "D">>
KeyAPPROVED == <<"A", "P", "P", "R", "O", "V", "E", "D">>
ColonSpace == <<":", " ">>

\* ------------------------------------------------------------ frame lexer

\* the window `read` of readUntil after i passes of its loop over buf.  It is
\* made of len(delim) zero bytes, and each pass does read[0] = read[1];
\* read[1] = readByte: the first two places hold the last two bytes read, the
\* places after them are never written
Window(buf, delim, i) ==
    [j \in 1..Len(delim) |->
        IF j = 1 THEN (IF i >= 2 THEN buf[i - 1] ELSE NUL)
        ELSE IF j = 2 THEN (IF i >= 1 THEN buf[i] ELSE NUL)
        ELSE NUL]

\* readUntil returning the bytes before the delimiter only
readUntilBeforeDelim(buf, delim) ==
    LET stops == {i \in 0..Len(buf) : Window(buf, delim, i) = delim}
        n == IF stops = {} THEN Len(buf) ELSE CHOOSE i \in stops : \A j \in stops : i <= j
    IN  [out |-> IF stops = {} THEN buf ELSE SubSeq(buf, 1, n - Len(delim)),
         rest |-> SubSeq(buf, n + 1, Len(buf)),
         err |-> IF stops = {} THEN "EOF" ELSE "nil"]

\* readUntil without the err != io.EOF test before append: the zero byte of
\* the failed ReadByte ends the result
readUntilZeroAppended(buf, delim) ==
    LET stops == {i \in 0..Len(buf) : Window(buf, delim, i) = delim}
        n == IF stops = {} THEN Len(buf) ELSE CHOOSE i \in stops : \A j \in stops : i <= j
    IN  [out |-> IF stops = {} THEN buf \o <<NUL>> ELSE SubSeq(buf, 1, n),
         rest |-> SubSeq(buf, n + 1, Len(buf)),
         err |-> IF stops = {} THEN "EOF" ELSE "nil"]

\* readUntil stopping at every line feed, whether or not a CR precedes it
readUntilAtLineFeed(buf, delim) ==
    LET stops == {i \in 1..Len(buf) : buf[i] = delim[Len(delim)]}
        n == IF stops = {} THEN Len(buf) ELSE CHOOSE i \in stops : \A j \in stops : i <= j
    IN  [out |-> SubSeq(buf, 1, n), rest |-> SubSeq(buf, n + 1, Len(buf)),
         err |-> IF stops = {} THEN "EOF" ELSE "nil"]

\* readUntil reading one byte past the delimiter without returning it
readUntilSkipping(buf, delim) ==
    LET stops == {i \in 0..Len(buf) : Window(buf, delim, i) = delim}
        n == IF stops = {} THEN Len(buf) ELSE CHOOSE i \in stops : \A j \in stops : i <= j
    IN  [out |-> SubSeq(buf, 1, n),
         rest |-> SubSeq(buf, n + 2, Len(buf)),
         err |-> IF stops = {} THEN "EOF" ELSE "nil"]

\* readUntil(buffer, delim) on the unread bytes buf: the loop runs until the
\* window equals delim or ReadByte reports io.EOF.  The result is the bytes
\* consumed, the unread rest of the buffer and the error (nil or io.EOF); a
\* window shorter than two bytes makes the first pass panic
readUntil(buf, delim) ==
    LET stops == {i \in 0..Len(buf) : Window(buf, delim, i) = delim}
        n == IF stops = {} THEN Len(buf) ELSE CHOOSE i \in stops : \A j \in stops : i <= j
    IN  IF Len(delim) = 1 /\ Window(buf, delim, 0) # delim
        THEN [out |-> <<>>, rest |-> buf, err |-> "panic: index out of range"]
        ELSE [out |-> SubSeq(buf, 1, n), rest |-> SubSeq(buf, n + 1, Len(buf)),
              err |-> IF stops = {} THEN "EOF" ELSE "nil"]

\* a header line split at its last colon and space
parseHeaderAtLast(raw) ==
    LET at == {i \in 1..(Len(raw) - 1) : SubSeq(raw, i, i + 1) = ColonSpace}
        i == IF at = {} THEN 0 ELSE CHOOSE n \in at : \A m \in at : m <= n
    IN  IF i = 0 THEN [pair |-> <<>>, err |-> "invalid header line"]
        ELSE [pair |-> <<SubSeq(raw, 1, i - 1), SubSeq(raw, i + 2, Len(raw))>>, err |-> "nil"]

\* parseHeader(raw): strings.SplitN(raw, ": ", 2); one part only is an error
parseHeader(raw) ==
    LET i == Index(raw, ColonSpace)
    IN  IF i = 0 THEN [pair |-> <<>>, err |-> "invalid header line"]
        ELSE [pair |-> <<SubSeq(raw, 1, i - 1), SubSeq(raw, i + 2, Len(raw))>>, err |-> "nil"]

\* the loop of readHeaders: headers is the map built so far, line the result
\* of the last readUntil
RECURSIVE readHeadersLoop(_, _)
readHeadersLoop(headers, line) ==
    IF line.err # "nil" \/ line.out = headerSeparator
    THEN [headers |-> headers, rest |-> line.rest, err |-> line.err]
    ELSE LET header == TrimRight(line.out, {CR, LF})
             kv == parseHeader(header)
         IN  IF kv.err # "nil"
             THEN [headers |-> headers, rest |-> line.rest, err |-> kv.err]
             ELSE readHeadersLoop(
                      [k \in DOMAIN headers \cup {kv.pair[1]} |->
                          IF k = kv.pair[1] THEN kv.pair[2] ELSE headers[k]],
                      readUntil(line.rest, headerSeparator))

\* readHeaders taking the end of the buffer for the end of the header block
readHeadersToEnd(buf) ==
    LET h == readHeadersLoop(<<>>, readUntil(buf, headerSeparator))
    IN  [h EXCEPT !.err = IF h.err = "EOF" THEN "nil" ELSE h.err]

\* readHeaders(buffer): the header map, the unread rest and the error
readHeaders(buf) == readHeadersLoop(<<>>, readUntil(buf, headerSeparator))

\* a map lookup v, ok := headers[key]
HasKey(headers, key) == key \in DOMAIN headers

\* ------------------------------------------------------------- net.IP

\* a net.IP is a sequence of 4 or 16 byte values; NilIP is the nil slice
NilIP == <<>>
v4InV6Prefix == <<0, 0, 0, 0, 0, 0, 0, 0, 0, 0, 255, 255>>

\* net.IPv4(a, b, c, d): the 16-byte form of an IPv4 address
IPv4(a, b, c, d) == v4InV6Prefix \o <<a, b, c, d>>

\* ip.To4(): the 4-byte form, or NilIP when ip is no IPv4 address
To4(ip) ==
    IF Len(ip) = 4 THEN ip
    ELSE IF Len(ip) = 16 /\ SubSeq(ip, 1, 12) = v4InV6Prefix THEN SubSeq(ip, 13, 16)
    ELSE NilIP

\* ip.Equal(x): an IPv4 address equals its 16-byte form
IPEqual(ip, x) ==
    \/ ip = x
    \/ (To4(ip) # NilIP /\ To4(ip) = To4(x))

\* the eight 16-bit groups of a 16-byte address
Hextets(ip) == [i \in 1..8 |-> ip[2 * i - 1] * 256 + ip[2 * i]]

\* the longest run of zero groups, at least two long, the first on a tie:
\* <<start, length>>, or <<0, 0>> when there is none
ZeroRun(h) ==
    LET runs == {r \in (1..8) \X (2..8) :
                    /\ r[1] + r[2] - 1 <= 8
                    /\ \A i \in r[1]..(r[1] + r[2] - 1) : h[i] = 0}
    IN  IF runs = {} THEN <<0, 0>>
        ELSE CHOOSE r \in runs : \A q \in runs : q[2] < r[2] \/ (q[2] = r[2] /\ q[1] >= r[1])

RECURSIVE FormatGroups(_, _, _)
FormatGroups(h, i, run) ==
    IF i > 8 THEN <<>>
    ELSE IF i = run[1]
         THEN <<":", ":">> \o FormatGroups(h, i + run[2], run)
         ELSE (IF i > 1 /\ i # run[1] + run[2] THEN <<":">> ELSE <<>>)
              \o Hex(h[i]) \o FormatGroups(h, i + 1, run)

\* ip.String(), which fmt's %s uses
IPString(ip) ==
    IF Len(ip) = 0 THEN <<"<", "n", "i", "l", ">">>
    ELSE IF To4(ip) # NilIP
         THEN LET p == To4(ip)
              IN  Itoa(p[1]) \o <<".">> \o Itoa(p[2]) \o <<".">> \o Itoa(p[3]) \o <<".">> \o Itoa(p[4])
    ELSE FormatGroups(Hextets(ip), 1, ZeroRun(Hextets(ip)))

\* the fields of s between occurrences of sep
RECURSIVE Split(_, _)
Split(s, sep) ==
    LET i == IndexByte(s, sep)
    IN  IF i = 0 THEN <<s>> ELSE <<SubSeq(s, 1, i - 1)>> \o Split(SubSeq(s, i + 1, Len(s)), sep)

\* one decimal field of an IPv4 literal: 1..3 digits, no leading zero, <= 255
IsV4Field(f) ==
    /\ Len(f) \in 1..3
    /\ \A i \in DOMAIN f : IsDigit(f[i])
    /\ (Len(f) > 1 => f[1] # "0")
    /\ ParseUint(f, 8).err = "nil"

parseIPv4(s) ==
    LET f == Split(s, ".")
    IN  IF Len(f) = 4 /\ \A i \in 1..4 : IsV4Field(f[i])
        THEN IPv4(ParseUint(f[1], 8).val, ParseUint(f[2], 8).val,
                  ParseUint(f[3], 8).val, ParseUint(f[4], 8).val)
        ELSE NilIP

\* the number of leading hexadecimal digits of s
RECURSIVE LeadingHex(_)
LeadingHex(s) == IF s # <<>> /\ IsHex(Head(s)) THEN 1 + LeadingHex(Tail(s)) ELSE 0

RECURSIVE HexValue(_, _)
HexValue(s, acc) == IF s = <<>> THEN acc ELSE HexValue(Tail(s), acc * 16 + HexVal(Head(s)))

\* the groups of an IPv6 literal put back into 16 bytes, zeros at the ellipsis
ExpandV6(groups, ell) ==
    LET n == Len(groups)
        all == IF ell < 0 THEN groups
               ELSE SubSeq(groups, 1, ell) \o [i \in 1..(8 - n) |-> 0] \o SubSeq(groups, ell + 1, n)
    IN  IF (n < 8 /\ ell < 0) \/ (n = 8 /\ ell >= 0) \/ n > 8 THEN NilIP
        ELSE [i \in 1..16 |-> IF i % 2 = 1 THEN all[(i + 1) \div 2] \div 256
                                            ELSE all[i \div 2] % 256]

\* the field loop of parseIPv6: s starts at a group, ell is the number of
\* groups before the "::" seen, -1 when none was seen.  Groups of more than
\* four digits and an embedded dotted tail are rejected.
RECURSIVE parseIPv6Loop(_, _, _)
parseIPv6Loop(s, groups, ell) ==
    LET n == LeadingHex(s)
        got == Append(groups, HexValue(SubSeq(s, 1, n), 0))
        rest == SubSeq(s, n + 1, Len(s))
    IN  IF n = 0 \/ n > 4 \/ Len(got) > 8 THEN NilIP
        ELSE IF rest = <<>> THEN ExpandV6(got, ell)
        ELSE IF rest[1] # ":" \/ Len(rest) = 1 THEN NilIP
        ELSE IF rest[2] = ":"
             THEN IF ell >= 0 THEN NilIP
                  ELSE IF Len(rest) = 2 THEN ExpandV6(got, Len(got))
                  ELSE parseIPv6Loop(SubSeq(rest, 3, Len(rest)), got, Len(got))
        ELSE parseIPv6Loop(Tail(rest), got, ell)

parseIPv6(s) ==
    IF Len(s) >= 2 /\ SubSeq(s, 1, 2) = <<":", ":">>
    THEN IF Len(s) = 2 THEN ExpandV6(<<>>, 0)
         ELSE parseIPv6Loop(SubSeq(s, 3, Len(s)), <<>>, 0)
    ELSE parseIPv6Loop(s, <<>>, -1)

\* net.ParseIP(s): the first '.' or ':' of s decides the family; NilIP when s
\* is no IP literal (a hostname, an empty string)
ParseIP(s) ==
    LET special == {i \in DOMAIN s : s[i] \in {".", ":"}}
        first == CHOOSE i \in special : \A j \in special : i <= j
    IN  IF special = {} THEN NilIP
        ELSE IF s[first] = "." THEN parseIPv4(s)
        ELSE parseIPv6(s)

\* net.SplitHostPort(hostport): the port follows the last colon; a host that
\* holds a colon must be wrapped in brackets
SplitHostPort(hostport) ==
    LET i == LastIndexByte(hostport, ":")
        bad(why) == [host |-> <<>>, port |-> <<>>, err |-> why]
        bracketed == hostport[1] = "["
        end == IndexByte(hostport, "]")
        host == IF bracketed THEN SubSeq(hostport, 2, end - 1) ELSE SubSeq(hostport, 1, i - 1)
        \* the parts that must hold no further bracket
        afterOpen == IF bracketed THEN SubSeq(hostport, 2, Len(hostport)) ELSE hostport
        afterClose == IF bracketed THEN SubSeq(hostport, end + 1, Len(hostport)) ELSE hostport
    IN  IF i = 0 THEN bad("missing port in address")
        ELSE IF bracketed /\ end = 0 THEN bad("missing ']' in address")
        ELSE IF bracketed /\ end = Len(hostport) THEN bad("missing port in address")
        ELSE IF bracketed /\ end + 1 # i
             THEN IF hostport[end + 1] = ":" THEN bad("too many colons in address")
                  ELSE bad("missing port in address")
        ELSE IF ~bracketed /\ IndexByte(host, ":") > 0 THEN bad("too many colons in address")
        ELSE IF IndexByte(afterOpen, "[") > 0 THEN bad("unexpected '[' in address")
        ELSE IF IndexByte(afterClose, "]") > 0 THEN bad("unexpected ']' in address")
        ELSE [host |-> host, port |-> SubSeq(hostport, i + 1, Len(hostport)), err |-> "nil"]

\* ------------------------------------------------------------- uuid.UUID

\* a uuid.UUID is a sequence of 16 byte values
HexByte(b) == <<HexDigits[(b \div 16) + 1], HexDigits[(b % 16) + 1]>>

RECURSIVE HexBytes(_)
HexBytes(bs) == IF bs = <<>> THEN <<>> ELSE HexByte(Head(bs)) \o HexBytes(Tail(bs))

\* uuid.String(): xxxxxxxx-xxxx-xxxx-xxxx-xxxxxxxxxxxx, lower case
UUIDString(u) ==
    HexBytes(SubSeq(u, 1, 4)) \o <<"-">> \o HexBytes(SubSeq(u, 5, 6)) \o <<"-">>
        \o HexBytes(SubSeq(u, 7, 8)) \o <<"-">> \o HexBytes(SubSeq(u, 9, 10)) \o <<"-">>
        \o HexBytes(SubSeq(u, 11, 16))

NilUUID == [i \in 1..16 |-> 0]
UrnPrefix == <<"u", "r", "n", ":", "u", "u", "i", "d", ":">>

\* the 16 bytes of 32 hexadecimal digits
UUIDFromHex(h) == [i \in 1..16 |-> HexVal(h[2 * i - 1]) * 16 + HexVal(h[2 * i])]

\* uuid.Parse(s): the hyphenated form of 36 bytes, the same after "urn:uuid:"
\* (in either case) or between two bytes that are taken for braces without
\* being looked at, or 32 hexadecimal digits; anything else is an error
UUIDParse(s) ==
    LET bad == [uuid |-> NilUUID, err |-> "invalid UUID"]
        lower(c) == CASE c = "U" -> "u" [] c = "R" -> "r" [] c = "N" -> "n"
                      [] c = "I" -> "i" [] c = "D" -> "d" [] OTHER -> c
        body == IF Len(s) = 36 + 9 THEN SubSeq(s, 10, 45)
                ELSE IF Len(s) = 36 + 2 THEN SubSeq(s, 2, 37)
                ELSE s
        hex == IF Len(s) = 32 THEN s
               ELSE SubSeq(body, 1, 8) \o SubSeq(body, 10, 13) \o SubSeq(body, 15, 18)
                        \o SubSeq(body, 20, 23) \o SubSeq(body, 25, 36)
    IN  IF Len(s) \notin {32, 36, 36 + 2, 36 + 9} THEN bad
        ELSE IF Len(s) = 36 + 9 /\ [i \in 1..9 |-> lower(s[i])] # UrnPrefix THEN bad
        ELSE IF Len(s) # 32 /\ \E i \in {9, 14, 19, 24} : body[i] # "-" THEN bad
        ELSE IF \E i \in DOMAIN hex : ~IsHex(hex[i]) THEN bad
        ELSE [uuid |-> UUIDFromHex(hex), err |-> "nil"]

\* ------------------------------------------------------- encoding/json

\* a JSON value held in an interface{}: a string, a bool, a float64, an int
\* (Marshal only; Unmarshal yields float64 for every number) or nil
JString(x) == [t |-> "string", s |-> x, b |-> FALSE, n |-> 0]
JBool(x) == [t |-> "bool", s |-> <<>>, b |-> x, n |-> 0]
JFloat(x) == [t |-> "float64", s |-> <<>>, b |-> FALSE, n |-> x]
JInt(x) == [t |-> "int", s |-> <<>>, b |-> FALSE, n |-> x]
JNull == [t |-> "nil", s |-> <<>>, b |-> FALSE, n |-> 0]

\* a map[string]interface{}: the nil map, or a map with its entries
NilMap == [isNil |-> TRUE, kv |-> <<>>]
MakeMap(kv) == [isNil |-> FALSE, kv |-> kv]

\* the bytes of the model in ASCII order, for comparing map keys
AsciiOrder == <<"\"", "-", ".">> \o Digits \o <<":", "A", "B", "C", "D", "E", "F", "\\">>
                  \o <<"a", "b", "c", "d", "e", "f", "k", "v", "{", "}">>
Ord(c) == IndexByte(AsciiOrder, c)

RECURSIVE BytesLess(_, _)
BytesLess(x, y) ==
    IF y = <<>> THEN FALSE
    ELSE IF x = <<>> THEN TRUE
    ELSE IF Head(x) # Head(y) THEN Ord(Head(x)) < Ord(Head(y))
    ELSE BytesLess(Tail(x), Tail(y))

RECURSIVE EscapeJSON(_)
EscapeJSON(x) ==
    IF x = <<>> THEN <<>>
    ELSE (CASE Head(x) = "\"" -> <<"\\", "\"">>
            [] Head(x) = "\\" -> <<"\\", "\\">>
            [] Head(x) = LF -> <<"\\", "n">>
            [] Head(x) = CR -> <<"\\", "r">>
            [] OTHER -> <<Head(x)>>) \o EscapeJSON(Tail(x))

MarshalString(x) == <<"\"">> \o EscapeJSON(x) \o <<"\"">>

MarshalValue(v) ==
    CASE v.t = "string" -> MarshalString(v.s)
      [] v.t = "bool" -> IF v.b THEN <<"t", "r", "u", "e">> ELSE <<"f", "a", "l", "s", "e">>
      [] v.t \in {"float64", "int"} -> Itoa(v.n)
      [] OTHER -> <<"n", "u", "l", "l">>

\* the members of an object, keys in sorted order
RECURSIVE MarshalMembers(_, _)
MarshalMembers(kv, keys) ==
    IF keys = {} THEN <<>>
    ELSE LET k == CHOOSE x \in keys : \A y \in keys : ~BytesLess(y, x)
         IN  MarshalString(k) \o <<":">> \o MarshalValue(kv[k])
                 \o (IF keys = {k} THEN <<>> ELSE <<",">>)
                 \o MarshalMembers(kv, keys \ {k})

\* json.Marshal(m) of a map[string]interface{}
Marshal(m) ==
    IF m.isNil THEN <<"n", "u", "l", "l">>
    ELSE <<"{">> \o MarshalMembers(m.kv, DOMAIN m.kv) \o <<"}">>

JSONSpace == {" ", "\t", CR, LF}

RECURSIVE SkipSpace(_)
SkipSpace(x) == IF x # <<>> /\ Head(x) \in JSONSpace THEN SkipSpace(Tail(x)) ELSE x

HasPrefix(x, p) == Len(x) >= Len(p) /\ SubSeq(x, 1, Len(p)) = p

JSONFail == [ok |-> FALSE, val |-> JNull, rest |-> <<>>]

\* a string after its opening quote; a raw control byte is invalid
RECURSIVE ScanString(_, _)
ScanString(x, acc) ==
    IF x = <<>> \/ Head(x) \in {CR, LF, "\t", NUL} THEN JSONFail
    ELSE IF Head(x) = "\"" THEN [ok |-> TRUE, val |-> JString(acc), rest |-> Tail(x)]
    ELSE IF Head(x) = "\\"
         THEN IF Len(x) < 2 THEN JSONFail
              ELSE CASE x[2] = "\"" -> ScanString(SubSeq(x, 3, Len(x)), Append(acc, "\""))
                     [] x[2] = "\\" -> ScanString(SubSeq(x, 3, Len(x)), Append(acc, "\\"))
                     [] x[2] = "n" -> ScanString(SubSeq(x, 3, Len(x)), Append(acc, LF))
                     [] x[2] = "r" -> ScanString(SubSeq(x, 3, Len(x)), Append(acc, CR))
                     [] OTHER -> JSONFail
    ELSE ScanString(Tail(x), Append(acc, Head(x)))

RECURSIVE LeadingDigits(_)
LeadingDigits(x) == IF x # <<>> /\ IsDigit(Head(x)) THEN 1 + LeadingDigits(Tail(x)) ELSE 0

\* a scalar JSON value at the head of x: a string, true, false, null or an
\* unsigned integer without leading zero; nested values are not modelled
ScanValue(x) ==
    LET n == LeadingDigits(x)
    IN  IF x = <<>> THEN JSONFail
        ELSE IF Head(x) = "\"" THEN ScanString(Tail(x), <<>>)
        ELSE IF HasPrefix(x, <<"t", "r", "u", "e">>)
             THEN [ok |-> TRUE, val |-> JBool(TRUE), rest |-> SubSeq(x, 5, Len(x))]
        ELSE IF HasPrefix(x, <<"f", "a", "l", "s", "e">>)
             THEN [ok |-> TRUE, val |-> JBool(FALSE), rest |-> SubSeq(x, 6, Len(x))]
        ELSE IF HasPrefix(x, <<"n", "u", "l", "l">>)
             THEN [ok |-> TRUE, val |-> JNull, rest |-> SubSeq(x, 5, Len(x))]
        ELSE IF n > 0 /\ (n = 1 \/ Head(x) # "0")
             THEN [ok |-> TRUE, val |-> JFloat(AccumulateUint(SubSeq(x, 1, n), 0, 1000000)),
                   rest |-> SubSeq(x, n + 1, Len(x))]
        ELSE JSONFail

\* the members of an object after '{' or ','; kv is the map built so far and
\* a repeated key keeps its last value
RECURSIVE ScanMembers(_, _)
ScanMembers(x, kv) ==
    LET key == IF x # <<>> /\ Head(x) = "\"" THEN ScanString(Tail(x), <<>>) ELSE JSONFail
        colon == SkipSpace(key.rest)
        value == IF key.ok /\ colon # <<>> /\ Head(colon) = ":"
                 THEN ScanValue(SkipSpace(Tail(colon))) ELSE JSONFail
        after == SkipSpace(value.rest)
        next == [k \in DOMAIN kv \cup {key.val.s} |-> IF k = key.val.s THEN value.val ELSE kv[k]]
    IN  IF ~value.ok \/ after = <<>> THEN [ok |-> FALSE, kv |-> kv, rest |-> <<>>]
        ELSE IF Head(after) = "}" THEN [ok |-> TRUE, kv |-> next, rest |-> Tail(after)]
        ELSE IF Head(after) = "," THEN ScanMembers(SkipSpace(Tail(after)), next)
        ELSE [ok |-> FALSE, kv |-> kv, rest |-> <<>>]

\* json.Unmarshal(data, &m) into a nil map[string]interface{}: an object fills
\* a fresh map, null leaves m nil, any other value or text is an error
Unmarshal(data) ==
    LET x == SkipSpace(data)
        bad(why) == [m |-> NilMap, err |-> why]
        open == SkipSpace(Tail(x))
        obj == IF open # <<>> /\ Head(open) = "}"
               THEN [ok |-> TRUE, kv |-> <<>>, rest |-> Tail(open)]
               ELSE ScanMembers(open, <<>>)
        scalar == ScanValue(x)
    IN  IF x = <<>> THEN bad("json: unexpected end of JSON input")
        ELSE IF Head(x) = "{"
             THEN IF obj.ok /\ SkipSpace(obj.rest) = <<>>
                  THEN [m |-> MakeMap(obj.kv), err |-> "nil"]
                  ELSE bad("json: syntax error")
        ELSE IF scalar.ok /\ SkipSpace(scalar.rest) = <<>>
             THEN IF scalar.val = JNull THEN [m |-> NilMap, err |-> "nil"]
                  ELSE bad("json: cannot unmarshal into Go value of type map")
        ELSE bad("json: syntax error")

\* ------------------------------------------------------------ packets

\* the nil Packet interface value
NilPacket == [kind |-> "nil"]

\* DiscoveryPacket{Address, Port, Type}
NewRequestDiscoveryPacket(address, port) ==
    [kind |-> "DiscoveryPacket", Address |-> address, Port |-> port, Type |-> requestDiscoveryType]

NewResponseDiscoveryPacket(address, port) ==
    [kind |-> "DiscoveryPacket", Address |-> address, Port |-> port, Type |-> responseDiscoveryType]

\* RequestActionPacket{RequestUUID, ActionId, Parameters}; the UUID that
\* uuid.New() draws is the argument requestUUID
NewRequestActionPacket(requestUUID, actionId, parameters) ==
    [kind |-> "RequestActionPacket", RequestUUID |-> requestUUID, ActionId |-> actionId,
     Parameters |-> parameters]

\* ResponseActionPacket{RequestUUID, Approved, Content}
NewResponseActionPacket(requestUUID, approved, content) ==
    [kind |-> "ResponseActionPacket", RequestUUID |-> requestUUID, Approved |-> approved,
     Content |-> content]

TypeHeaderPrefix == KeyTYPE \o ColonSpace
HostHeaderPrefix == KeyHOST \o ColonSpace

\* (*DiscoveryPacket).String with the HOST header before the TYPE header
DiscoveryPacketStringHostFirst(p) ==
    LET typeHeader == TypeHeaderPrefix \o p.Type
        hostHeader == HostHeaderPrefix \o IPString(p.Address) \o <<":">> \o Itoa(p.Port)
        headers == <<discoveryIdentifier, hostHeader, typeHeader>>
    IN  Join(headers, headerSeparator) \o headerSeparator \o endPacket

\* (*DiscoveryPacket).String
DiscoveryPacketString(p) ==
    LET typeHeader == TypeHeaderPrefix \o p.Type
        hostHeader == HostHeaderPrefix \o IPString(p.Address) \o <<":">> \o Itoa(p.Port)
        headers == <<discoveryIdentifier, typeHeader, hostHeader>>
    IN  Join(headers, headerSeparator) \o headerSeparator \o endPacket

\* (*RequestActionPacket).String with the body written for a non-empty map
\* only (len(packet.Parameters) > 0 in place of packet.Parameters != nil)
RequestActionPacketStringNonEmpty(p) ==
    LET requestUUIDHeader == KeyREQUESTUUID \o ColonSpace \o UUIDString(p.RequestUUID)
        actionHeader == KeyACTIONID \o ColonSpace \o Itoa(p.ActionId)
        parametersJSON == Marshal(p.Parameters)
        headers == <<requestActionIdentifier, requestUUIDHeader, actionHeader>>
        out == Join(headers, headerSeparator) \o headerSeparator
    IN  (IF DOMAIN p.Parameters.kv # {}
         THEN out \o headerSeparator \o parametersJSON \o headerSeparator
         ELSE out) \o endPacket

\* (*RequestActionPacket).String without the endPacket after the body line
RequestActionPacketStringBodyLast(p) ==
    LET requestUUIDHeader == KeyREQUESTUUID \o ColonSpace \o UUIDString(p.RequestUUID)
        actionHeader == KeyACTIONID \o ColonSpace \o Itoa(p.ActionId)
        parametersJSON == Marshal(p.Parameters)
        headers == <<requestActionIdentifier, requestUUIDHeader, actionHeader>>
        out == Join(headers, headerSeparator) \o headerSeparator
    IN  IF ~p.Parameters.isNil
        THEN out \o headerSeparator \o parametersJSON \o headerSeparator
        ELSE out \o endPacket

\* (*RequestActionPacket).String
RequestActionPacketString(p) ==
    LET requestUUIDHeader == KeyREQUESTUUID \o ColonSpace \o UUIDString(p.RequestUUID)
        actionHeader == KeyACTIONID \o ColonSpace \o Itoa(p.ActionId)
        parametersJSON == Marshal(p.Parameters)
        headers == <<requestActionIdentifier, requestUUIDHeader, actionHeader>>
        out == Join(headers, headerSeparator) \o headerSeparator
    IN  (IF ~p.Parameters.isNil
         THEN out \o headerSeparator \o parametersJSON \o headerSeparator
         ELSE out) \o endPacket

\* (*ResponseActionPacket).String with the flag written by the %t verb, in
\* lower case
ResponseActionPacketStringLowerCase(p) ==
    LET requestUUIDHeader == KeyREQUESTUUID \o ColonSpace \o UUIDString(p.RequestUUID)
        approved == IF p.Approved THEN <<"t", "r", "u", "e">> ELSE <<"f", "a", "l", "s", "e">>
        approvedHeader == KeyAPPROVED \o ColonSpace \o approved
        contentJSON == Marshal(p.Content)
        headers == <<responseActionIdentifier, requestUUIDHeader, approvedHeader>>
        out == Join(headers, headerSeparator) \o headerSeparator
    IN  (IF ~p.Content.isNil
         THEN out \o headerSeparator \o contentJSON \o headerSeparator
         ELSE out) \o endPacket

\* (*ResponseActionPacket).String
ResponseActionPacketString(p) ==
    LET requestUUIDHeader == KeyREQUESTUUID \o ColonSpace \o UUIDString(p.RequestUUID)
        approved == IF p.Approved THEN <<"T", "r", "u", "e">> ELSE <<"F", "a", "l", "s", "e">>
        approvedHeader == KeyAPPROVED \o ColonSpace \o approved
        contentJSON == Marshal(p.Content)
        headers == <<responseActionIdentifier, requestUUIDHeader, approvedHeader>>
        out == Join(headers, headerSeparator) \o headerSeparator
    IN  (IF ~p.Content.isNil
         THEN out \o headerSeparator \o contentJSON \o headerSeparator
         ELSE out) \o endPacket

\* packet.Bytes(): the bytes of packet.String() of the packet's variant
Bytes(p) ==
    CASE p.kind = "DiscoveryPacket" -> DiscoveryPacketString(p)
      [] p.kind = "RequestActionPacket" -> RequestActionPacketString(p)
      [] p.kind = "ResponseActionPacket" -> ResponseActionPacketString(p)

\* ------------------------------------------------------------ ParsePacket

Return(p, err) == [packet |-> p, err |-> err]

\* the requestActionIdentifier case returning the io.EOF of the body read
\* (without the err = nil after the optional body)
ParseRequestActionEOFReturned(buf) ==
    LET h == readHeaders(buf)
        packetRequestUUID == UUIDParse(h.headers[KeyREQUESTUUID])
        packetActionId == ParseUint(h.headers[KeyACTIONID], 8)
        parameters == readUntil(h.rest, headerSeparator)
        parametersJSON == Unmarshal(parameters.out)
    IN  IF h.err # "nil" THEN Return(NilPacket, h.err)
        ELSE IF ~HasKey(h.headers, KeyREQUESTUUID)
             THEN Return(NilPacket, "malformed packet: REQUEST-UUID header not found")
        ELSE IF packetRequestUUID.err # "nil" THEN Return(NilPacket, packetRequestUUID.err)
        ELSE IF ~HasKey(h.headers, KeyACTIONID)
             THEN Return(NilPacket, "malformed packet: ACTION-ID header not found")
        ELSE IF packetActionId.err # "nil" THEN Return(NilPacket, packetActionId.err)
        ELSE IF parameters.err = "nil" /\ parametersJSON.err # "nil"
             THEN Return(NilPacket, parametersJSON.err)
        ELSE Return(NewRequestActionPacket(packetRequestUUID.uuid, packetActionId.val % 256,
                        IF parameters.err = "nil" THEN parametersJSON.m ELSE NilMap),
                    parameters.err)

\* the requestActionIdentifier case of ParsePacket; buf is the unread buffer
\* after the identifier line
ParseRequestAction(buf) ==
    LET h == readHeaders(buf)
        packetRequestUUID == UUIDParse(h.headers[KeyREQUESTUUID])
        packetActionId == ParseUint(h.headers[KeyACTIONID], 8)
        parameters == readUntil(h.rest, headerSeparator)
        parametersJSON == Unmarshal(parameters.out)
    IN  IF h.err # "nil" THEN Return(NilPacket, h.err)
        ELSE IF ~HasKey(h.headers, KeyREQUESTUUID)
             THEN Return(NilPacket, "malformed packet: REQUEST-UUID header not found")
        ELSE IF packetRequestUUID.err # "nil" THEN Return(NilPacket, packetRequestUUID.err)
        ELSE IF ~HasKey(h.headers, KeyACTIONID)
             THEN Return(NilPacket, "malformed packet: ACTION-ID header not found")
        ELSE IF packetActionId.err # "nil" THEN Return(NilPacket, packetActionId.err)
        ELSE IF parameters.err = "nil" /\ parametersJSON.err # "nil"
             THEN Return(NilPacket, parametersJSON.err)
        ELSE Return(NewRequestActionPacket(packetRequestUUID.uuid, packetActionId.val % 256,
                        IF parameters.err = "nil" THEN parametersJSON.m ELSE NilMap),
                    "nil")

\* the responseActionIdentifier case of ParsePacket: an empty case, so the
\* named results are returned as they are, both nil
ParseResponseAction(buf) == Return(NilPacket, "nil")

\* the discoveryIdentifier case without the ok test on headers["HOST"]: the
\* empty value of the missing key goes on to net.SplitHostPort
ParseDiscoveryHostUnchecked(buf) ==
    LET h == readHeaders(buf)
        packetType == h.headers[KeyTYPE]
        packetHost == IF HasKey(h.headers, KeyHOST) THEN h.headers[KeyHOST] ELSE <<>>
        split == SplitHostPort(packetHost)
        ip == ParseIP(split.host)
        port == ParseUint(split.port, 16)
    IN  IF h.err # "nil" THEN Return(NilPacket, h.err)
        ELSE IF ~HasKey(h.headers, KeyTYPE)
             THEN Return(NilPacket, "malformed packet: TYPE header not found")
        ELSE IF split.err # "nil" THEN Return(NilPacket, "malformed packet: invalid ip/port pair")
        ELSE IF ip = NilIP THEN Return(NilPacket, "malformed packet: hostname is not supported")
        ELSE IF port.err # "nil" THEN Return(NilPacket, port.err)
        ELSE IF packetType = requestDiscoveryType
             THEN Return(NewRequestDiscoveryPacket(ip, port.val % 65536), "nil")
        ELSE IF packetType = responseDiscoveryType
             THEN Return(NewResponseDiscoveryPacket(ip, port.val % 65536), "nil")
        ELSE Return(NilPacket, "malformed packet: type not supported")

\* the discoveryIdentifier case of ParsePacket
ParseDiscovery(buf) ==
    LET h == readHeaders(buf)
        packetType == h.headers[KeyTYPE]
        split == SplitHostPort(h.headers[KeyHOST])
        ip == ParseIP(split.host)
        port == ParseUint(split.port, 16)
    IN  IF h.err # "nil" THEN Return(NilPacket, h.err)
        ELSE IF ~HasKey(h.headers, KeyTYPE)
             THEN Return(NilPacket, "malformed packet: TYPE header not found")
        ELSE IF ~HasKey(h.headers, KeyHOST)
             THEN Return(NilPacket, "malformed packet: HOST header not found")
        ELSE IF split.err # "nil" THEN Return(NilPacket, "malformed packet: invalid ip/port pair")
        ELSE IF ip = NilIP THEN Return(NilPacket, "malformed packet: hostname is not supported")
        ELSE IF port.err # "nil" THEN Return(NilPacket, port.err)
        ELSE IF packetType = requestDiscoveryType
             THEN Return(NewRequestDiscoveryPacket(ip, port.val % 65536), "nil")
        ELSE IF packetType = responseDiscoveryType
             THEN Return(NewResponseDiscoveryPacket(ip, port.val % 65536), "nil")
        ELSE Return(NilPacket, "malformed packet: type not supported")

\* ParsePacket(buffer): the packet and the error it returns
ParsePacket(buf) ==
    LET identifier == readUntil(buf, headerSeparator)
        name == TrimRight(identifier.out, {CR, LF})
    IN  IF identifier.err # "nil" THEN Return(NilPacket, identifier.err)
        ELSE IF name = requestActionIdentifier THEN ParseRequestAction(identifier.rest)
        ELSE IF name = responseActionIdentifier THEN ParseResponseAction(identifier.rest)
        ELSE IF name = discoveryIdentifier THEN ParseDiscovery(identifier.rest)
        ELSE Return(NilPacket, "malformed packet: identifier not knwon")

\* ---------------------------------------------------------------- state

VARIABLES
    \* codec: a caller builds a packet, serializes it (or takes bytes off the
    \* wire) and hands the buffer to ParsePacket
    cpc,        \* "start", "built", "wire", "lexing", "scanned" or "parsed"
    packet,     \* the packet built, NilPacket when the buffer came off the wire
    buffer,     \* the bytes.Buffer handed to ParsePacket
    parsed,     \* what ParsePacket returned: [packet, err]
    original,   \* the bytes the bytes.Buffer was made of
    chunks,     \* what the calls of readUntil on the buffer returned, in order
    lexErr,     \* the error of the last readUntil on the buffer
    lexDelim,   \* the delimiter readUntil was called with
    \* discovery engines
    engine,     \* the function called: "DiscoveryService" or "LookForNodes"
    cancelled,  \* ctx.Done() is closed
    supPc,      \* the supervisor (the body of the function called)
    retErr,     \* the error the function returned
    conn,       \* the UDP socket: "none", "open" or "closed"
    stream,     \* discoveredNodes: [buf, closed]
    closeCount, \* the number of close(discoveredNodes) executed
    inbox,      \* datagrams queued in the socket, oldest first
    arrived,    \* the number of datagrams that reached the socket so far
    rcvPc,      \* the receive loop
    readBuffer, \* the service's readBuffer: the places written so far, the
                \* places after them still hold the zero bytes of make
    cur,        \* the datagram the receive loop is handling
    rcvErr,     \* the error on which the receive loop ended
    closeChannel,         \* closeChannel / closeReceiverChannel: [buf, closed]
    closeSenderChannel,   \* [buf, closed]
    sndPc,      \* the sender loop of LookForNodes
    sndErr,     \* the error on which the sender loop ended
    sends,      \* the requests the sender loop wrote: a count
    writes,     \* the WriteTo calls of the service, in order: records
                \* [id, data, to, ok, afterClose] (the datagram answered, the bytes,
                \* the destination, whether the write succeeded, and whether the
                \* datagram had arrived after the stream was closed)
    tasks,      \* resolution tasks: records [id, pc, kind]
    delivered,  \* what the consumer received from the stream, in order
    panicked    \* a goroutine panicked: the process is gone

codecVars == <<cpc, packet, buffer, parsed, original, chunks, lexErr, lexDelim>>
engineVars == <<engine, cancelled, supPc, retErr, conn, stream, closeCount, inbox, arrived,
                rcvPc, readBuffer, cur, rcvErr, closeChannel, closeSenderChannel, sndPc, sndErr, sends,
                writes, tasks, delivered, panicked>>
vars == <<cpc, packet, buffer, parsed, original, chunks, lexErr, lexDelim, engine, cancelled, supPc, retErr, conn, stream,
          closeCount, inbox, arrived, rcvPc, readBuffer, cur, rcvErr, closeChannel,
          closeSenderChannel, sndPc, sndErr, sends, writes, tasks, delivered, panicked>>

\* ------------------------------------------------------- codec: inputs

\* addresses a caller passes to the constructors: IPv4 in its 16-byte and
\* 4-byte form, and IPv6
LoopbackV4 == IPv4(127, 0, 0, 1)
OtherAppV4 == IPv4(10, 0, 10, 0)
ShortV4 == <<192, 168, 1, 255>>
LoopbackV6 == <<0, 0, 0, 0, 0, 0, 0, 0, 0, 0, 0, 0, 0, 0, 0, 1>>
DocV6 == <<32, 1, 13, 184, 0, 0, 0, 0, 0, 1, 0, 0, 0, 0, 0, 1>>
Addresses == {LoopbackV4, OtherAppV4, ShortV4, LoopbackV6, DocV6}
IsIPv4(ip) == To4(ip) # NilIP

Ports == {0, 8400, 65535}
ActionIds == {0, 1, 255}

UUIDa == <<18, 52, 86, 120, 154, 188, 222, 240, 1, 35, 69, 103, 137, 171, 205, 239>>
UUIDb == <<255, 238, 221, 204, 187, 170, 64, 0, 128, 0, 0, 10, 11, 12, 13, 14>>
UUIDs == {UUIDa, UUIDb}

KeyK == <<"k">>
KeyAB == <<"a", "b">>
\* a string value with the bytes the encoder must escape
Tricky == <<"v", "\"", CR, LF, "\\">>
OneEntry(k, v) == MakeMap([x \in {k} |-> v])
TwoEntries(k1, v1, k2, v2) == MakeMap([x \in {k1, k2} |-> IF x = k1 THEN v1 ELSE v2])

\* the maps a caller passes as Parameters or Content
Maps == {NilMap, MakeMap(<<>>),
         OneEntry(KeyK, JString(<<"v">>)),
         OneEntry(KeyK, JBool(TRUE)),
         OneEntry(KeyK, JNull),
         OneEntry(KeyK, JInt(10)),
         TwoEntries(KeyK, JString(Tricky), KeyAB, JFloat(10)),
         TwoEntries(KeyK, JBool(FALSE), KeyAB, JFloat(0))}

\* a value json.Unmarshal gives back as it was: every number a float64
JSONStable(m) == \A k \in DOMAIN m.kv : m.kv[k].t # "int"

\* ------------------------------------------------------ codec: operations

\* a caller builds a discovery packet of either kind
BuildDiscovery ==
    /\ cpc = "start"
    /\ \E address \in Addresses, port \in Ports :
           \/ packet' = NewRequestDiscoveryPacket(address, port)
           \/ packet' = NewResponseDiscoveryPacket(address, port)
    /\ cpc' = "built"
    /\ UNCHANGED <<buffer, parsed, original, chunks, lexErr, lexDelim>>
    /\ UNCHANGED engineVars

BuildRequestAction ==
    /\ cpc = "start"
    /\ \E u \in UUIDs, actionId \in ActionIds, parameters \in Maps :
           packet' = NewRequestActionPacket(u, actionId, parameters)
    /\ cpc' = "built"
    /\ UNCHANGED <<buffer, parsed, original, chunks, lexErr, lexDelim>>
    /\ UNCHANGED engineVars

BuildResponseAction ==
    /\ cpc = "start"
    /\ \E u \in UUIDs, approved \in BOOLEAN, content \in Maps :
           packet' = NewResponseActionPacket(u, approved, content)
    /\ cpc' = "built"
    /\ UNCHANGED <<buffer, parsed, original, chunks, lexErr, lexDelim>>
    /\ UNCHANGED engineVars

\* packet.Bytes() into a fresh bytes.Buffer
Serialize ==
    /\ cpc = "built"
    /\ buffer' = Bytes(packet)
    /\ original' = Bytes(packet)
    /\ cpc' = "wire"
    /\ UNCHANGED <<packet, parsed, chunks, lexErr, lexDelim>>
    /\ UNCHANGED engineVars

\* ParsePacket(buffer)
Parse ==
    /\ cpc = "wire"
    /\ parsed' = ParsePacket(buffer)
    /\ cpc' = "parsed"
    /\ UNCHANGED <<packet, buffer, original, chunks, lexErr, lexDelim>>
    /\ UNCHANGED engineVars

\* bytes that come off the wire instead of out of Bytes(): every prefix of a
\* serialized discovery packet, and packets written by hand, among them the
\* serialized packet with another first line: a header, a misspelled or
\* lower-case identifier, and the identifier with a CR or an LF after it; and
\* the discovery identifier followed by a complete header block made of any
\* of four header lines: TYPE, HOST, a lower-case type and an unknown header;
\* the sample packet, of either type, with any of its four line terminators
\* written as a bare LF (src/network/packet_test.go 192-213); the HOST line
\* followed by a TYPE line of one of nine values, the two types, a type with
\* a CR, an LF or a blank around it, other words and the empty text; the
\* TYPE line followed by a HOST line whose value is a host name, an address
\* without a port or a port without an address, a port that is empty,
\* signed, not a number, 0, 65535, above 65535 or written with a leading
\* zero, a port with a CR after it, and a number above 255 in the address;
\* the request-action packet without a body whose REQUEST-UUID value is a
\* UUID in hyphenated form, in lower or upper case, too short, without
\* hyphens, in braces or parentheses, after urn:uuid: in either case or
\* after another prefix, with a letter that is no digit, with a digit in
\* the place of a hyphen, or with a CR after it; the same packet with an
\* ACTION-ID value that is 0, 1, 255, above 255, written with leading
\* zeros, signed, followed by a letter, a blank or a CR, or empty, and
\* with one of its two headers left out (part_002 445-487); the same packet
\* with a body after its headers: an object on a line with or without the
\* empty line or further bytes after it, an object or another text cut
\* off before the CR LF, an object without its closing brace, the empty
\* object, null, a string, a number, and an empty line; the response-action
\* packet without one of its two headers, with the header name or the
\* value of APPROVED in another case, and with a REQUEST-UUID that is too
\* short or without hyphens (part_002 569-619)
SampleDiscovery == Bytes(NewRequestDiscoveryPacket(LoopbackV4, 8400))
BracketedV6Request ==
    Join(<<discoveryIdentifier, TypeHeaderPrefix \o requestDiscoveryType,
           HostHeaderPrefix \o <<"[", ":", ":", "1", "]", ":", "8", "4", "0", "1">>>>,
         headerSeparator) \o headerSeparator \o endPacket
WireInputs ==
    LET afterIdentifier ==
            SubSeq(SampleDiscovery, Len(discoveryIdentifier) + 1, Len(SampleDiscovery))
        headerLines ==
            <<TypeHeaderPrefix \o requestDiscoveryType,
              HostHeaderPrefix \o IPString(LoopbackV4) \o <<":">> \o Itoa(8400),
              <<"t", "y", "p", "e">> \o ColonSpace \o requestDiscoveryType,
              <<"X", ":", " ", "1">>>>
        line(sel, i) == IF sel[i] THEN headerLines[i] \o headerSeparator ELSE <<>>
        lineEnd(sel, i) == IF sel[i] THEN <<LF>> ELSE headerSeparator
        typeValues ==
            {requestDiscoveryType, responseDiscoveryType,
             requestDiscoveryType \o <<CR>>, responseDiscoveryType \o <<LF>>,
             requestDiscoveryType \o <<" ">>, <<" ">> \o responseDiscoveryType,
             <<"d", "i", "s", "c", "o", "v", "e", "r", "y">>, <<"R", "U", "N", "N", "I", "N", "G">>,
             <<>>}
        request(u, a, body) ==
            requestActionIdentifier \o headerSeparator
                \o KeyREQUESTUUID \o ColonSpace \o u \o headerSeparator
                \o KeyACTIONID \o ColonSpace \o a \o headerSeparator \o headerSeparator \o body
        canonical == UUIDString(UUIDa)
        uuidValues ==
            {canonical, <<"1">>, SubSeq(canonical, 1, 35), HexBytes(UUIDa),
             <<"{">> \o canonical \o <<"}">>, <<"(">> \o canonical \o <<")">>,
             UrnPrefix \o canonical, <<"U", "R", "N", ":", "u", "u", "i", "d", ":">> \o canonical,
             <<"u", "r", "l", ":", "u", "u", "i", "d", ":">> \o canonical,
             SubSeq(canonical, 1, 35) \o <<"g">>,
             SubSeq(canonical, 1, 8) \o <<"0">> \o SubSeq(canonical, 10, 36),
             [i \in 1..36 |-> IF canonical[i] = "a" THEN "A" ELSE canonical[i]],
             canonical \o <<CR>>}
        actionValues ==
            {<<"0">>, <<"1">>, <<"2", "5", "5">>, <<"2", "5", "6">>, <<"2", "5", "7">>,
             <<"5", "1", "1">>, <<"0", "0", "7">>, <<"+", "1">>, <<"-", "1">>, <<"1", "x">>,
             <<"1", " ">>, <<"1", CR>>, <<>>}
        object == <<"{", "\"", "k", "\"", ":", "t", "r", "u", "e", "}">>
        bodies ==
            {object \o headerSeparator \o endPacket, object \o headerSeparator, object,
             SubSeq(object, 1, 9) \o headerSeparator, SubSeq(object, 1, 9), <<"{">>,
             <<"{", "}">> \o headerSeparator, <<"n", "u", "l", "l">> \o headerSeparator,
             <<"\"", "k", "\"">> \o headerSeparator, <<"7">> \o headerSeparator, <<"x">>,
             headerSeparator, object \o headerSeparator \o <<"x">>}
        response(lines) ==
            Join(<<responseActionIdentifier>> \o lines, headerSeparator)
                \o headerSeparator \o headerSeparator
        uuidLine(u) == KeyREQUESTUUID \o ColonSpace \o u
        approvedLine(v) == KeyAPPROVED \o ColonSpace \o v
        loopback == IPString(LoopbackV4)
        hostValues ==
            {<<"l", "o", "c", "a", "l", "h", "o", "s", "t", ":", "8", "4", "0", "0">>,
             loopback, loopback \o <<":">>, <<":", "8", "4", "0", "0">>,
             loopback \o <<":", "8", "x">>, loopback \o <<":", "+", "8", "4", "0", "0">>,
             loopback \o <<":", "-", "1">>, loopback \o <<":", "0">>,
             loopback \o <<":", "0", "8", "4", "0", "0">>,
             loopback \o <<":", "6", "5", "5", "3", "5">>,
             loopback \o <<":", "6", "5", "5", "3", "6">>,
             loopback \o <<":", "7", "3", "9", "3", "6">>,
             loopback \o <<":", "8", "4", "0", "0", CR>>,
             <<"2", "5", "6", ".", "0", ".", "0", ".", "1", ":", "8", "4", "0", "0">>}
    IN  {request(u, <<"1">>, <<>>) : u \in uuidValues} \cup
        {request(canonical, a, <<>>) : a \in actionValues} \cup
        {response(<<uuidLine(canonical)>>),
         response(<<approvedLine(<<"F", "a", "l", "s", "e">>)>>),
         response(<<uuidLine(<<"1">>), approvedLine(<<"F", "A", "l", "s", "e">>)>>),
         response(<<uuidLine(canonical), approvedLine(<<"t", "r", "u", "e">>)>>),
         response(<<uuidLine(HexBytes(UUIDa)), approvedLine(<<"T", "r", "u", "e">>)>>),
         response(<<uuidLine(canonical),
                    <<"A", "p", "p", "r", "o", "v", "e", "d", ":", " ", "T", "r", "u", "e">>>>)} \cup
        {request(canonical, <<"1">>, b) : b \in bodies} \cup
        {requestActionIdentifier \o headerSeparator \o KeyREQUESTUUID \o ColonSpace
             \o canonical \o headerSeparator \o headerSeparator,
         requestActionIdentifier \o headerSeparator \o KeyACTIONID \o ColonSpace
             \o <<"1">> \o headerSeparator \o headerSeparator} \cup
        {discoveryIdentifier \o headerSeparator \o headerLines[1] \o headerSeparator
             \o HostHeaderPrefix \o h \o headerSeparator \o headerSeparator :
                 h \in hostValues} \cup
        {discoveryIdentifier \o headerSeparator \o headerLines[2] \o headerSeparator
             \o TypeHeaderPrefix \o ty \o headerSeparator \o headerSeparator :
                 ty \in typeValues} \cup
        {discoveryIdentifier \o lineEnd(sel, 1) \o TypeHeaderPrefix \o ty \o lineEnd(sel, 2)
             \o headerLines[2] \o lineEnd(sel, 3) \o lineEnd(sel, 4) :
                 sel \in [1..4 -> BOOLEAN],
                 ty \in {requestDiscoveryType, responseDiscoveryType}} \cup
        {discoveryIdentifier \o headerSeparator
             \o line(sel, 4) \o line(sel, 1) \o line(sel, 3) \o line(sel, 2) \o headerSeparator :
                 sel \in [1..4 -> BOOLEAN]} \cup
        UNION {{SubSeq(w, 1, n) : n \in 0..Len(w)} :
                   w \in {SampleDiscovery,
                          Bytes(NewResponseDiscoveryPacket(OtherAppV4, 8402))}}
            \cup {BracketedV6Request, responseActionIdentifier \o headerSeparator}
            \cup {SubSeq(afterIdentifier, 3, Len(afterIdentifier)),
                  preffix \o <<"D", "Y", "S", "C", "O", "V", "E", "R", "Y">> \o afterIdentifier,
                  <<"d">> \o Tail(discoveryIdentifier) \o afterIdentifier,
                  discoveryIdentifier \o <<CR>> \o afterIdentifier,
                  discoveryIdentifier \o <<LF>> \o afterIdentifier,
                  requestActionIdentifier \o <<CR, LF>>
                      \o Bytes(NewRequestActionPacket(UUIDa, 1, NilMap)),
                  discoveryIdentifier \o headerSeparator
                      \o KeyTYPE \o <<":">> \o requestDiscoveryType \o headerSeparator
                      \o headerLines[2] \o headerSeparator \o headerSeparator,
                  discoveryIdentifier \o headerSeparator
                      \o headerLines[1] \o headerSeparator
                      \o TypeHeaderPrefix \o responseDiscoveryType \o headerSeparator
                      \o headerLines[2] \o headerSeparator \o headerSeparator,
                  discoveryIdentifier \o headerSeparator
                      \o headerLines[1] \o headerSeparator
                      \o headerLines[2] \o headerSeparator \o headerSeparator
                      \o headerLines[4] \o headerSeparator}

\* the longest of the short buffers, and the short buffers: every sequence
\* of a letter, CR and LF up to that length
MaxLexLen == 4
LexInputs == UNION {[1..n -> {"a", CR, LF}] : n \in 0..MaxLexLen}

\* a buffer arrives off the wire
Receive ==
    /\ cpc = "start"
    /\ \E b \in WireInputs \cup LexInputs : buffer' = b /\ original' = b
    /\ cpc' = "wire"
    /\ UNCHANGED <<packet, parsed, chunks, lexErr, lexDelim>>
    /\ UNCHANGED engineVars

\* a caller's readUntil(buffer, delim) with the delimiter CR LF, repeated on
\* the same buffer until it reports io.EOF: the bytes returned, the error,
\* and the buffer left with its unread bytes
CallReadUntil ==
    /\ cpc \in {"wire", "lexing"}
    /\ lexErr = "nil"
    /\ chunks' = Append(chunks, readUntil(buffer, headerSeparator).out)
    /\ lexErr' = readUntil(buffer, headerSeparator).err
    /\ buffer' = readUntil(buffer, headerSeparator).rest
    /\ cpc' = "lexing"
    /\ UNCHANGED <<packet, parsed, original, lexDelim>>
    /\ UNCHANGED engineVars

\* delimiters of one, two and three bytes
Delims == {<<LF>>, <<"a">>, <<"a", LF>>, <<CR, LF, "a">>, <<"a", "a", "a">>}

\* a caller's readUntil(buffer, delim) with another delimiter, once
CallReadUntilWith ==
    /\ cpc = "wire"
    /\ \E d \in Delims :
           /\ lexDelim' = d
           /\ chunks' = <<readUntil(buffer, d).out>>
           /\ lexErr' = readUntil(buffer, d).err
           /\ buffer' = readUntil(buffer, d).rest
    /\ cpc' = "scanned"
    /\ UNCHANGED <<packet, parsed, original>>
    /\ UNCHANGED engineVars

CodecInit ==
    /\ cpc = "start"
    /\ packet = NilPacket
    /\ buffer = <<>>
    /\ parsed = Return(NilPacket, "nil")
    /\ original = <<>>
    /\ chunks = <<>>
    /\ lexErr = "nil"
    /\ lexDelim = headerSeparator

CodecNext ==
    \/ BuildDiscovery
    \/ BuildRequestAction
    \/ BuildResponseAction
    \/ Serialize
    \/ Receive
    \/ CallReadUntil
    \/ CallReadUntilWith
    \/ Parse

\* ------------------------------------------------------ engines: inputs

\* the number of datagrams that reach the socket in one run
MaxDatagrams == 2
\* the capacity of the discoveredNodes channel the caller made
ChanCap == 1

\* appSocket, the address this instance advertises
appSocket == [IP |-> ShortV4, Port |-> 8401]

\* the datagrams that arrive: payload and source address
Wire == <<Bytes(NewRequestDiscoveryPacket(OtherAppV4, 8401)),
          Bytes(NewResponseDiscoveryPacket(OtherAppV4, 8402)),
          BracketedV6Request,
          Bytes(NewRequestActionPacket(UUIDa, 1, NilMap)),
          SubSeq(SampleDiscovery, 1, 30),
          SubSeq(SampleDiscovery, 31, Len(SampleDiscovery))>>
Source == <<"peerA", "peerB", "peerB", "peerA", "peerB", "peerB">>

\* what the receive loop gets from ParsePacket(bytes.NewBuffer(readBuffer[:read]))
Decode == [k \in DOMAIN Source |-> ParsePacket(Wire[k])]

\* packet, ok := packet.(*DiscoveryPacket) after a nil error
IsDiscovery(r) == r.err = "nil" /\ r.packet.kind = "DiscoveryPacket"

\* a channel: its buffered values and whether it was closed
NewChan == [buf |-> <<>>, closed |-> FALSE]

\* net.ResolveTCPAddr("tcp4", address) of the literal "<ip>:<port>" text a
\* resolution task formats
ResolveTCPAddr(address) ==
    LET split == SplitHostPort(address)
        ip == ParseIP(split.host)
        port == ParseUint(split.port, 16)
    IN  IF split.err = "nil" /\ ip # NilIP /\ IsIPv4(ip) /\ port.err = "nil"
        THEN [addr |-> [IP |-> ip, Port |-> port.val], err |-> "nil"]
        ELSE [addr |-> [IP |-> NilIP, Port |-> 0], err |-> "address error"]

\* no datagram in hand; Type is discoveryPacket.Type of the packet in hand
NoDatagram == [id |-> 0, kind |-> 0, src |-> "", afterClose |-> FALSE, Type |-> <<>>]

\* before the call: nothing bound, no goroutine started
EngineIdle ==
    /\ cancelled = FALSE
    /\ supPc = "init"
    /\ retErr = "nil"
    /\ conn = "none"
    /\ stream = NewChan
    /\ closeCount = 0
    /\ inbox = <<>>
    /\ arrived = 0
    /\ rcvPc = "idle"
    /\ readBuffer = <<>>
    /\ cur = NoDatagram
    /\ rcvErr = "nil"
    /\ closeChannel = NewChan
    /\ closeSenderChannel = NewChan
    /\ sndPc = "idle"
    /\ sndErr = "nil"
    /\ sends = 0
    /\ writes = <<>>
    /\ tasks = {}
    /\ delivered = <<>>
    /\ panicked = FALSE

EngineInit ==
    /\ engine \in {"DiscoveryService", "LookForNodes"}
    /\ EngineIdle

\* ------------------------------------------------- engines: environment

\* the caller cancels ctx (or its deadline passes)
Cancel ==
    /\ ~cancelled
    /\ cancelled' = TRUE
    /\ UNCHANGED codecVars
    /\ UNCHANGED readBuffer
    /\ UNCHANGED <<engine, supPc, retErr, conn, stream, closeCount, inbox, arrived, rcvPc, cur,
                   rcvErr, closeChannel, closeSenderChannel, sndPc, sndErr, sends, writes,
                   tasks, delivered, panicked>>

\* a datagram reaches the open socket; it is tagged with whether the stream
\* was already closed when it arrived
Arrive ==
    /\ conn = "open"
    /\ arrived < MaxDatagrams
    /\ \E k \in DOMAIN Source :
           inbox' = Append(inbox, [id |-> arrived + 1, kind |-> k, src |-> Source[k],
                                   afterClose |-> stream.closed])
    /\ arrived' = arrived + 1
    /\ UNCHANGED codecVars
    /\ UNCHANGED readBuffer
    /\ UNCHANGED <<engine, cancelled, supPc, retErr, conn, stream, closeCount, rcvPc, cur,
                   rcvErr, closeChannel, closeSenderChannel, sndPc, sndErr, sends, writes,
                   tasks, delivered, panicked>>

\* the consumer receives the oldest value of the stream
Consume ==
    /\ stream.buf # <<>>
    /\ delivered' = Append(delivered, Head(stream.buf))
    /\ stream' = [stream EXCEPT !.buf = Tail(stream.buf)]
    /\ UNCHANGED codecVars
    /\ UNCHANGED readBuffer
    /\ UNCHANGED <<engine, cancelled, supPc, retErr, conn, closeCount, inbox, arrived, rcvPc,
                   cur, rcvErr, closeChannel, closeSenderChannel, sndPc, sndErr, sends, writes,
                   tasks, panicked>>

\* -------------------------------------------------- engines: supervisor

\* DiscoveryService up to its select: net.ListenUDP, the two defers,
\* closeChannel and the go statement of the receive loop; a bind error returns
Listen ==
    /\ engine = "DiscoveryService"
    /\ supPc = "init"
    /\ \/ /\ conn' = "open"
          /\ rcvPc' = "read"
          /\ supPc' = "select"
          /\ UNCHANGED retErr
       \/ /\ retErr' = "bind error"
          /\ supPc' = "returned"
          /\ UNCHANGED <<conn, rcvPc>>
    /\ UNCHANGED codecVars
    /\ UNCHANGED readBuffer
    /\ UNCHANGED <<engine, cancelled, stream, closeCount, inbox, arrived, cur, rcvErr,
                   closeChannel, closeSenderChannel, sndPc, sndErr, sends, writes, tasks,
                   delivered, panicked>>

\* LookForNodes up to its select: net.DialUDP, the two defers, the two
\* channels and the go statements of both loops; a dial error returns
Dial ==
    /\ engine = "LookForNodes"
    /\ supPc = "init"
    /\ \/ /\ conn' = "open"
          /\ rcvPc' = "read"
          /\ sndPc' = "send"
          /\ supPc' = "select"
          /\ UNCHANGED retErr
       \/ /\ retErr' = "dial error"
          /\ supPc' = "returned"
          /\ UNCHANGED <<conn, rcvPc, sndPc>>
    /\ UNCHANGED codecVars
    /\ UNCHANGED readBuffer
    /\ UNCHANGED <<engine, cancelled, stream, closeCount, inbox, arrived, cur, rcvErr,
                   closeChannel, closeSenderChannel, sndErr, sends, writes, tasks, delivered,
                   panicked>>

\* a receive from channel c is ready when c holds a value or was closed
Ready(c) == c.buf # <<>> \/ c.closed
\* the value the receive yields: the oldest value, nil on a drained closed channel
Received(c) == IF c.buf # <<>> THEN Head(c.buf) ELSE "nil"
AfterReceive(c) == IF c.buf # <<>> THEN [c EXCEPT !.buf = Tail(c.buf)] ELSE c

\* case <-ctx.Done(): err = ctx.Err()
SelectDone ==
    /\ supPc = "select"
    /\ ~panicked
    /\ cancelled
    /\ retErr' = "context canceled"
    /\ supPc' = "closeStream"
    /\ UNCHANGED codecVars
    /\ UNCHANGED readBuffer
    /\ UNCHANGED <<engine, cancelled, conn, stream, closeCount, inbox, arrived, rcvPc, cur,
                   rcvErr, closeChannel, closeSenderChannel, sndPc, sndErr, sends, writes,
                   tasks, delivered, panicked>>

\* case err = <-closeChannel (DiscoveryService), <-closeReceiverChannel (LookForNodes)
SelectReceiver ==
    /\ supPc = "select"
    /\ ~panicked
    /\ Ready(closeChannel)
    /\ retErr' = Received(closeChannel)
    /\ closeChannel' = AfterReceive(closeChannel)
    /\ supPc' = "closeStream"
    /\ UNCHANGED codecVars
    /\ UNCHANGED readBuffer
    /\ UNCHANGED <<engine, cancelled, conn, stream, closeCount, inbox, arrived, rcvPc, cur,
                   rcvErr, closeSenderChannel, sndPc, sndErr, sends, writes, tasks, delivered,
                   panicked>>

\* case err = <-closeSenderChannel (LookForNodes)
SelectSender ==
    /\ engine = "LookForNodes"
    /\ supPc = "select"
    /\ ~panicked
    /\ Ready(closeSenderChannel)
    /\ retErr' = Received(closeSenderChannel)
    /\ closeSenderChannel' = AfterReceive(closeSenderChannel)
    /\ supPc' = "closeStream"
    /\ UNCHANGED codecVars
    /\ UNCHANGED readBuffer
    /\ UNCHANGED <<engine, cancelled, conn, stream, closeCount, inbox, arrived, rcvPc, cur,
                   rcvErr, closeChannel, sndPc, sndErr, sends, writes, tasks, delivered,
                   panicked>>

\* the deferred close(discoveredNodes), the first to run on return; closing a
\* closed channel panics
DeferCloseStream ==
    /\ supPc = "closeStream"
    /\ ~panicked
    /\ IF stream.closed
       THEN /\ panicked' = TRUE
            /\ UNCHANGED <<stream, closeCount, supPc>>
       ELSE /\ stream' = [stream EXCEPT !.closed = TRUE]
            /\ closeCount' = closeCount + 1
            /\ supPc' = "closeConn"
            /\ UNCHANGED panicked
    /\ UNCHANGED codecVars
    /\ UNCHANGED readBuffer
    /\ UNCHANGED <<engine, cancelled, retErr, conn, inbox, arrived, rcvPc, cur, rcvErr,
                   closeChannel, closeSenderChannel, sndPc, sndErr, sends, writes, tasks,
                   delivered>>

\* the return without the deferred conn.Close()
ReturnWithoutConnClose ==
    /\ supPc = "closeConn"
    /\ ~panicked
    /\ supPc' = "returned"
    /\ UNCHANGED codecVars
    /\ UNCHANGED readBuffer
    /\ UNCHANGED <<engine, cancelled, retErr, conn, inbox, stream, closeCount, arrived, rcvPc,
                   cur, rcvErr, closeChannel, closeSenderChannel, sndPc, sndErr, sends, writes,
                   tasks, delivered, panicked>>

\* the deferred conn.Close(), the last to run; datagrams not read are dropped
DeferCloseConn ==
    /\ supPc = "closeConn"
    /\ ~panicked
    /\ conn' = "closed"
    /\ inbox' = <<>>
    /\ supPc' = "returned"
    /\ UNCHANGED codecVars
    /\ UNCHANGED readBuffer
    /\ UNCHANGED <<engine, cancelled, retErr, stream, closeCount, arrived, rcvPc, cur, rcvErr,
                   closeChannel, closeSenderChannel, sndPc, sndErr, sends, writes, tasks,
                   delivered, panicked>>

\* ------------------------------------------------ engines: receive loops

\* the go statement of a resolution task for the packet of datagram d
Spawn(d) == [id |-> d.id, pc |-> "run", kind |-> d.kind]

\* what the task spawned for a datagram of kind k resolves:
\* net.ResolveTCPAddr("tcp4", "<Address>:<Port>") of the packet decoded
ResolveOf(r) ==
    IF IsDiscovery(r)
    THEN ResolveTCPAddr(IPString(r.packet.Address) \o <<":">> \o Itoa(r.packet.Port))
    ELSE [addr |-> [IP |-> NilIP, Port |-> 0], err |-> "no packet"]
Resolved == [k \in DOMAIN Source |-> ResolveOf(Decode[k])]
theirAppSocket(t) == Resolved[t.kind]

\* what the service's loop does with datagram d that ParsePacket decoded to
\* r: a DiscoveryPacket is kept in hand, anything else is dropped (continue)
ServiceTake(d, r) ==
    IF IsDiscovery(r)
    THEN /\ cur' = [id |-> d.id, kind |-> d.kind, src |-> d.src,
                    afterClose |-> d.afterClose, Type |-> r.packet.Type]
         /\ rcvPc' = "deadline"
    ELSE UNCHANGED <<cur, rcvPc>>

\* conn.ReadFrom(readBuffer) of a datagram shorter than the buffer: its bytes
\* are copied over the first places, the places after them keep what they held
ReadFrom(b, data) == data \o SubSeq(b, Len(data) + 1, Len(b))

\* what readBuffer can hold after n reads, and ParsePacket of each of them
RECURSIVE ReadBuffers(_)
ReadBuffers(n) ==
    IF n = 0 THEN {<<>>}
    ELSE ReadBuffers(n - 1)
             \cup {ReadFrom(b, Wire[k]) : b \in ReadBuffers(n - 1), k \in DOMAIN Wire}
ParsePacketOf == [b \in ReadBuffers(MaxDatagrams) |-> ParsePacket(b)]

\* the read that parses all that readBuffer holds, readBuffer in place of
\* readBuffer[:read]
ServiceReadWholeBuffer ==
    /\ engine = "DiscoveryService"
    /\ rcvPc = "read"
    /\ ~panicked
    /\ conn = "open"
    /\ inbox # <<>>
    /\ inbox' = Tail(inbox)
    /\ LET data == Wire[Head(inbox).kind]
           filled == ReadFrom(readBuffer, data)
       IN  /\ readBuffer' = filled
           /\ ServiceTake(Head(inbox), ParsePacketOf[filled])
    /\ UNCHANGED codecVars
    /\ UNCHANGED <<engine, cancelled, supPc, retErr, conn, stream, closeCount, arrived, rcvErr,
                   closeChannel, closeSenderChannel, sndPc, sndErr, sends, writes, tasks,
                   delivered, panicked>>

\* DiscoveryService: conn.ReadFrom(readBuffer) returns a datagram, ParsePacket
\* of readBuffer[:read] and the type assertion follow
ServiceRead ==
    /\ engine = "DiscoveryService"
    /\ rcvPc = "read"
    /\ ~panicked
    /\ conn = "open"
    /\ inbox # <<>>
    /\ inbox' = Tail(inbox)
    /\ LET data == Wire[Head(inbox).kind]
           filled == ReadFrom(readBuffer, data)
       IN  /\ readBuffer' = filled
           /\ ServiceTake(Head(inbox), ParsePacketOf[SubSeq(filled, 1, Len(data))])
    /\ UNCHANGED codecVars
    /\ UNCHANGED <<engine, cancelled, supPc, retErr, conn, stream, closeCount, arrived, rcvErr,
                   closeChannel, closeSenderChannel, sndPc, sndErr, sends, writes, tasks,
                   delivered, panicked>>

\* conn.SetWriteDeadline: it fails on a closed socket only, and the loop
\* continues with the next read
ServiceSetWriteDeadline ==
    /\ rcvPc = "deadline"
    /\ ~panicked
    /\ rcvPc' = IF conn = "open" THEN "write" ELSE "read"
    /\ cur' = IF conn = "open" THEN cur ELSE NoDatagram
    /\ UNCHANGED codecVars
    /\ UNCHANGED readBuffer
    /\ UNCHANGED <<engine, cancelled, supPc, retErr, conn, stream, closeCount, inbox, arrived,
                   rcvErr, closeChannel, closeSenderChannel, sndPc, sndErr, sends, writes,
                   tasks, delivered, panicked>>

\* a reply of the Request kind (NewRequestDiscoveryPacket in place of
\* NewResponseDiscoveryPacket)
replyOfRequestKind == NewRequestDiscoveryPacket(appSocket.IP, appSocket.Port)

\* the reply the service writes
responsePacket == NewResponseDiscoveryPacket(appSocket.IP, appSocket.Port)
responsePacketBytes == Bytes(responsePacket)

\* the reply followed by a call of resolveDiscoveryPacketTCPAddress in the
\* loop itself (no go statement): the loop waits for room in the stream
ServiceWriteToThenResolve ==
    /\ rcvPc = "write"
    /\ ~panicked
    /\ \E ok \in (IF conn = "open" THEN BOOLEAN ELSE {FALSE}) :
           writes' = Append(writes, [id |-> cur.id, data |-> responsePacketBytes,
                                     to |-> cur.src, ok |-> ok,
                                     afterClose |-> cur.afterClose])
    /\ IF cur.Type = requestDiscoveryType
       THEN IF Resolved[cur.kind].err # "nil"
            THEN /\ tasks' = tasks \cup {[Spawn(cur) EXCEPT !.pc = "failed"]}
                 /\ UNCHANGED <<stream, panicked>>
            ELSE IF stream.closed
            THEN /\ panicked' = TRUE
                 /\ UNCHANGED <<stream, tasks>>
            ELSE /\ Len(stream.buf) < ChanCap
                 /\ stream' = [stream EXCEPT !.buf = Append(stream.buf, Resolved[cur.kind].addr)]
                 /\ tasks' = tasks \cup {[Spawn(cur) EXCEPT !.pc = "pushed"]}
                 /\ UNCHANGED panicked
       ELSE UNCHANGED <<tasks, stream, panicked>>
    /\ rcvPc' = "read"
    /\ cur' = NoDatagram
    /\ UNCHANGED codecVars
    /\ UNCHANGED readBuffer
    /\ UNCHANGED <<engine, cancelled, supPc, retErr, conn, closeCount, inbox, arrived,
                   rcvErr, closeChannel, closeSenderChannel, sndPc, sndErr, sends, delivered>>

\* the reply followed by the go statement for every DiscoveryPacket, without
\* the test of its Type
ServiceWriteToSpawnAlways ==
    /\ rcvPc = "write"
    /\ ~panicked
    /\ \E ok \in (IF conn = "open" THEN BOOLEAN ELSE {FALSE}) :
           writes' = Append(writes, [id |-> cur.id, data |-> responsePacketBytes,
                                     to |-> cur.src, ok |-> ok,
                                     afterClose |-> cur.afterClose])
    /\ tasks' = tasks \cup {Spawn(cur)}
    /\ rcvPc' = "read"
    /\ cur' = NoDatagram
    /\ UNCHANGED codecVars
    /\ UNCHANGED readBuffer
    /\ UNCHANGED <<engine, cancelled, supPc, retErr, conn, stream, closeCount, inbox, arrived,
                   rcvErr, closeChannel, closeSenderChannel, sndPc, sndErr, sends, delivered,
                   panicked>>

\* conn.WriteTo(responsePacketBytes, addr): the write may fail on an open
\* socket and always fails on a closed one; its error is assigned and never
\* read.  Then the go statement when the packet read is a request.
ServiceWriteTo ==
    /\ rcvPc = "write"
    /\ ~panicked
    /\ \E ok \in (IF conn = "open" THEN BOOLEAN ELSE {FALSE}) :
           writes' = Append(writes, [id |-> cur.id, data |-> responsePacketBytes,
                                     to |-> cur.src, ok |-> ok,
                                     afterClose |-> cur.afterClose])
    /\ tasks' = IF cur.Type = requestDiscoveryType
                THEN tasks \cup {Spawn(cur)} ELSE tasks
    /\ rcvPc' = "read"
    /\ cur' = NoDatagram
    /\ UNCHANGED codecVars
    /\ UNCHANGED readBuffer
    /\ UNCHANGED <<engine, cancelled, supPc, retErr, conn, stream, closeCount, inbox, arrived,
                   rcvErr, closeChannel, closeSenderChannel, sndPc, sndErr, sends, delivered,
                   panicked>>

\* LookForNodes' read with the service's test on the packet's Type: a
\* resolution task for a Request only
LookReadRequestsOnly ==
    /\ engine = "LookForNodes"
    /\ rcvPc = "read"
    /\ ~panicked
    /\ conn = "open"
    /\ inbox # <<>>
    /\ inbox' = Tail(inbox)
    /\ IF /\ IsDiscovery(Decode[Head(inbox).kind])
          /\ Head(inbox).kind = 1
       THEN tasks' = tasks \cup {Spawn(Head(inbox))}
       ELSE UNCHANGED tasks
    /\ UNCHANGED codecVars
    /\ UNCHANGED readBuffer
    /\ UNCHANGED <<engine, cancelled, supPc, retErr, conn, stream, closeCount, arrived, rcvPc,
                   cur, rcvErr, closeChannel, closeSenderChannel, sndPc, sndErr, sends, writes,
                   delivered, panicked>>

\* LookForNodes' read without the err != nil and !ok checks: a resolution
\* task for every datagram
LookReadUnchecked ==
    /\ engine = "LookForNodes"
    /\ rcvPc = "read"
    /\ ~panicked
    /\ conn = "open"
    /\ inbox # <<>>
    /\ inbox' = Tail(inbox)
    /\ tasks' = tasks \cup {Spawn(Head(inbox))}
    /\ UNCHANGED codecVars
    /\ UNCHANGED readBuffer
    /\ UNCHANGED <<engine, cancelled, supPc, retErr, conn, stream, closeCount, arrived, rcvPc,
                   cur, rcvErr, closeChannel, closeSenderChannel, sndPc, sndErr, sends, writes,
                   delivered, panicked>>

\* LookForNodes: conn.ReadFrom returns a datagram; every DiscoveryPacket gets
\* a resolution task, anything else is dropped
LookRead ==
    /\ engine = "LookForNodes"
    /\ rcvPc = "read"
    /\ ~panicked
    /\ conn = "open"
    /\ inbox # <<>>
    /\ inbox' = Tail(inbox)
    /\ IF IsDiscovery(Decode[Head(inbox).kind])
       THEN tasks' = tasks \cup {Spawn(Head(inbox))}
       ELSE UNCHANGED tasks
    /\ UNCHANGED codecVars
    /\ UNCHANGED readBuffer
    /\ UNCHANGED <<engine, cancelled, supPc, retErr, conn, stream, closeCount, arrived, rcvPc,
                   cur, rcvErr, closeChannel, closeSenderChannel, sndPc, sndErr, sends, writes,
                   delivered, panicked>>

\* conn.ReadFrom returns an error: the socket was closed, or the read failed
\* on the open socket
ReadError ==
    /\ rcvPc = "read"
    /\ ~panicked
    /\ conn # "none"
    /\ rcvErr' = IF conn = "closed" THEN "use of closed network connection" ELSE "read error"
    /\ rcvPc' = "report"
    /\ UNCHANGED codecVars
    /\ UNCHANGED readBuffer
    /\ UNCHANGED <<engine, cancelled, supPc, retErr, conn, stream, closeCount, inbox, arrived,
                   cur, closeChannel, closeSenderChannel, sndPc, sndErr, sends, writes, tasks,
                   delivered, panicked>>

\* the report on an unbuffered channel (make(chan error)): the send completes
\* only while the supervisor waits in its select
ReportReadErrorUnbuffered ==
    /\ rcvPc = "report"
    /\ ~panicked
    /\ supPc = "select"
    /\ Len(closeChannel.buf) < 1
    /\ closeChannel' = [buf |-> Append(closeChannel.buf, rcvErr),
                        closed |-> engine = "DiscoveryService"]
    /\ rcvPc' = "done"
    /\ UNCHANGED codecVars
    /\ UNCHANGED readBuffer
    /\ UNCHANGED <<engine, cancelled, supPc, retErr, conn, stream, closeCount, inbox, arrived,
                   cur, rcvErr, closeSenderChannel, sndPc, sndErr, sends, writes, tasks,
                   delivered, panicked>>

\* the receive loop returning without closeChannel <- err: the deferred
\* close(closeChannel) alone tells the supervisor
ReportReadErrorByCloseOnly ==
    /\ rcvPc = "report"
    /\ ~panicked
    /\ closeChannel' = [closeChannel EXCEPT !.closed = engine = "DiscoveryService"]
    /\ rcvPc' = "done"
    /\ UNCHANGED codecVars
    /\ UNCHANGED readBuffer
    /\ UNCHANGED <<engine, cancelled, supPc, retErr, conn, stream, closeCount, inbox, arrived,
                   cur, rcvErr, closeSenderChannel, sndPc, sndErr, sends, writes, tasks,
                   delivered, panicked>>

\* closeChannel <- err; return.  The channel holds one value, so the send
\* does not wait; DiscoveryService's loop closes the channel on its way out
\* (defer close(closeChannel)), LookForNodes' loop does not
ReportReadError ==
    /\ rcvPc = "report"
    /\ ~panicked
    /\ Len(closeChannel.buf) < 1
    /\ closeChannel' = [buf |-> Append(closeChannel.buf, rcvErr),
                        closed |-> engine = "DiscoveryService"]
    /\ rcvPc' = "done"
    /\ UNCHANGED codecVars
    /\ UNCHANGED readBuffer
    /\ UNCHANGED <<engine, cancelled, supPc, retErr, conn, stream, closeCount, inbox, arrived,
                   cur, rcvErr, closeSenderChannel, sndPc, sndErr, sends, writes, tasks,
                   delivered, panicked>>

\* -------------------------------------------------- engines: sender loop

\* net.ErrWriteToConnected, and conn.WriteToUDP(b, addr) on socket c: the net
\* package refuses the call on a socket that DialUDP connected before it
\* touches the socket; on an unconnected socket the write fails once the
\* socket is closed
ErrWriteToConnected == "use of WriteTo with pre-connected connection"
WriteToUDP(isConnected, c) ==
    IF isConnected THEN ErrWriteToConnected
    ELSE IF c = "closed" THEN "use of closed network connection"
    ELSE "nil"

\* one iteration of the sender loop: a fresh request packet, its Bytes(),
\* conn.WriteToUDP(packetBytes, dstAddress) on the socket net.DialUDP
\* returned; on an error the loop goes to report it, otherwise it sleeps
\* lookForNodesInterval and starts over
SenderWrite ==
    /\ sndPc = "send"
    /\ ~panicked
    /\ IF WriteToUDP(TRUE, conn) = "nil"
       THEN /\ sends' = sends + 1
            /\ UNCHANGED <<sndPc, sndErr>>
       ELSE /\ sndErr' = WriteToUDP(TRUE, conn)
            /\ sndPc' = "report"
            /\ UNCHANGED sends
    /\ UNCHANGED codecVars
    /\ UNCHANGED readBuffer
    /\ UNCHANGED <<engine, cancelled, supPc, retErr, conn, stream, closeCount, inbox, arrived,
                   rcvPc, cur, rcvErr, closeChannel, closeSenderChannel, writes, tasks,
                   delivered, panicked>>

\* closeSenderChannel <- err; return, with the deferred close(closeSenderChannel)
ReportSendError ==
    /\ sndPc = "report"
    /\ ~panicked
    /\ Len(closeSenderChannel.buf) < 1
    /\ closeSenderChannel' = [buf |-> Append(closeSenderChannel.buf, sndErr), closed |-> TRUE]
    /\ sndPc' = "done"
    /\ UNCHANGED codecVars
    /\ UNCHANGED readBuffer
    /\ UNCHANGED <<engine, cancelled, supPc, retErr, conn, stream, closeCount, inbox, arrived,
                   rcvPc, cur, rcvErr, closeChannel, sndErr, sends, writes, tasks, delivered,
                   panicked>>

\* ---------------------------------------------- engines: resolution tasks

\* if err == nil { resultChannel <- theirAppSocket } of task t, resolved
\* being what net.ResolveTCPAddr returned
SendResult(t, resolved) ==
    IF resolved.err # "nil"
    THEN /\ tasks' = (tasks \ {t}) \cup {[t EXCEPT !.pc = "failed"]}
         /\ UNCHANGED <<stream, panicked>>
    ELSE IF stream.closed
    THEN /\ panicked' = TRUE
         /\ UNCHANGED <<stream, tasks>>
    ELSE /\ Len(stream.buf) < ChanCap
         /\ stream' = [stream EXCEPT !.buf = Append(stream.buf, resolved.addr)]
         /\ tasks' = (tasks \ {t}) \cup {[t EXCEPT !.pc = "pushed"]}
         /\ UNCHANGED panicked

\* resolveDiscoveryPacketTCPAddress: the address is formatted and resolved;
\* on an error the task ends without a word, otherwise it sends the address
\* on resultChannel: the send waits while the channel is full and panics once
\* the channel is closed
resolveDiscoveryPacketTCPAddress ==
    /\ ~panicked
    /\ \E t \in tasks : t.pc = "run" /\ SendResult(t, theirAppSocket(t))
    /\ UNCHANGED codecVars
    /\ UNCHANGED readBuffer
    /\ UNCHANGED <<engine, cancelled, supPc, retErr, conn, closeCount, inbox, arrived, rcvPc,
                   cur, rcvErr, closeChannel, closeSenderChannel, sndPc, sndErr, sends, writes,
                   delivered>>

\* -------------------------------------------------------- specifications

Init == CodecInit /\ EngineInit

Next ==
    \/ Cancel
    \/ Arrive
    \/ Consume
    \/ Listen
    \/ Dial
    \/ SelectDone
    \/ SelectReceiver
    \/ SelectSender
    \/ DeferCloseStream
    \/ DeferCloseConn
    \/ ServiceRead
    \/ ServiceSetWriteDeadline
    \/ ServiceWriteTo
    \/ LookRead
    \/ ReadError
    \/ ReportReadError
    \/ SenderWrite
    \/ ReportSendError
    \/ resolveDiscoveryPacketTCPAddress

\* the discovery engines
Spec == Init /\ [][Next]_vars

CodecSpecInit == CodecInit /\ engine = "DiscoveryService" /\ EngineIdle

\* the codec: packets built, serialized and parsed
SpecCodec == CodecSpecInit /\ [][CodecNext]_vars

\* a call of DiscoveryService: the steps of its supervisor, its receive loop,
\* its resolution tasks and its environment
ServiceInit == CodecInit /\ engine = "DiscoveryService" /\ EngineIdle

ServiceNext ==
    \/ Cancel
    \/ Arrive
    \/ Consume
    \/ Listen
    \/ SelectDone
    \/ SelectReceiver
    \/ DeferCloseStream
    \/ DeferCloseConn
    \/ ServiceRead
    \/ ServiceSetWriteDeadline
    \/ ServiceWriteTo
    \/ ReadError
    \/ ReportReadError
    \/ resolveDiscoveryPacketTCPAddress

\* the receive loop, the resolution tasks and the consumer are scheduled
\* whenever they can run; cancellation, arrivals and socket failures are the
\* environment's and may never happen
FairSpec ==
    /\ ServiceInit
    /\ [][ServiceNext]_vars
    /\ WF_vars(ServiceRead)
    /\ WF_vars(ServiceSetWriteDeadline)
    /\ WF_vars(ServiceWriteTo)
    /\ WF_vars(resolveDiscoveryPacketTCPAddress)
    /\ WF_vars(Consume)

\* each loop is a goroutine that is scheduled whenever it can take its next
\* step: a read returns when a datagram is queued or the socket is closed, a
\* write returns, a send on a channel with room completes.  The
\* supervisor's select, the resolution tasks and the consumer may wait forever
LoopSpec ==
    /\ Init
    /\ [][Next]_vars
    /\ WF_vars(\/ ServiceRead
               \/ ServiceSetWriteDeadline
               \/ ServiceWriteTo
               \/ LookRead
               \/ ReadError /\ conn = "closed"
               \/ ReportReadError)
    /\ WF_vars(SenderWrite \/ ReportSendError)

\* a call of DiscoveryService in which only the receive loop is sure to be
\* scheduled: the resolution tasks and the consumer may wait forever
ServiceLoopSpec ==
    /\ ServiceInit
    /\ [][ServiceNext]_vars
    /\ WF_vars(\/ ServiceRead
               \/ ServiceSetWriteDeadline
               \/ ServiceWriteTo
               \/ ReadError /\ conn = "closed"
               \/ ReportReadError)

\* ------------------------------------------------------ codec: properties

\* the call ParsePacket(P.Bytes()) of a packet P of the given variant is over
RoundTripped(kind) == cpc = "parsed" /\ packet.kind = kind

\* C1: every DiscoveryPacket built by either constructor, with an IPv4 or an
\* IPv6 address and any port, is parsed back from its bytes without an error,
\* with the same Address, Port and Type
C1_DiscoveryRoundTrip ==
    RoundTripped("DiscoveryPacket") =>
        /\ parsed.err = "nil"
        /\ parsed.packet.kind = "DiscoveryPacket"
        /\ IPEqual(parsed.packet.Address, packet.Address)
        /\ parsed.packet.Port = packet.Port
        /\ parsed.packet.Type = packet.Type

\* the IPv6 case of C1: the packet of ::1 and port 8400 was serialized and parsed
C1_IPv6Parsed ==
    /\ RoundTripped("DiscoveryPacket")
    /\ packet.Address = LoopbackV6
    /\ packet.Port = 8400
    /\ parsed.err = "malformed packet: invalid ip/port pair"

\* C2: every RequestActionPacket whose Parameters are nil, empty or a map of
\* JSON-stable values is parsed back from its bytes without an error, with the
\* same RequestUUID, ActionId and Parameters (nil stays nil, empty stays empty)
C2_RequestActionRoundTrip ==
    (RoundTripped("RequestActionPacket") /\ JSONStable(packet.Parameters)) =>
        /\ parsed.err = "nil"
        /\ parsed.packet.kind = "RequestActionPacket"
        /\ parsed.packet.RequestUUID = packet.RequestUUID
        /\ parsed.packet.ActionId = packet.ActionId
        /\ parsed.packet.Parameters = packet.Parameters

\* a packet whose Parameters hold two entries, one a string with bytes the
\* encoder escapes, went through the round trip
C2_TrickyMapParsed ==
    /\ RoundTripped("RequestActionPacket")
    /\ packet.Parameters = TwoEntries(KeyK, JString(Tricky), KeyAB, JFloat(10))
    /\ packet.ActionId = 255
    /\ parsed.err = "nil"
    /\ parsed.packet.Parameters = packet.Parameters

\* C3: every well-formed DYLLABLE-ACTION-RESPONSE packet is parsed without an
\* error into a ResponseActionPacket with the RequestUUID, Approved and
\* Content of the wire; ParsePacket(P.Bytes()) reproduces P
C3_ResponseActionRoundTrip ==
    (RoundTripped("ResponseActionPacket") /\ JSONStable(packet.Content)) =>
        /\ parsed.err = "nil"
        /\ parsed.packet.kind = "ResponseActionPacket"
        /\ parsed.packet.RequestUUID = packet.RequestUUID
        /\ parsed.packet.Approved = packet.Approved
        /\ parsed.packet.Content = packet.Content

\* an approved response without content was serialized and parsed: no packet
C3_ResponseParsedToNothing ==
    /\ RoundTripped("ResponseActionPacket")
    /\ packet.Approved
    /\ packet.Content = NilMap
    /\ parsed = Return(NilPacket, "nil")

\* C4: ParsePacket returns exactly one of a packet and an error
C4_PacketXorError ==
    cpc = "parsed" => ((parsed.packet = NilPacket) # (parsed.err = "nil"))

\* a buffer off the wire that holds the response identifier line alone was
\* parsed: neither a packet nor an error
C4_NilPacketNilError ==
    /\ cpc = "parsed"
    /\ packet = NilPacket
    /\ buffer = responseActionIdentifier \o headerSeparator
    /\ parsed = Return(NilPacket, "nil")

\* ---------------------------------------------------- engines: properties

\* DiscoveryService is running: the supervisor waits in its select, the
\* receive loop has not ended and no goroutine panicked
Running ==
    /\ engine = "DiscoveryService"
    /\ supPc = "select"
    /\ rcvPc \in {"read", "deadline", "write"}
    /\ ~panicked

\* datagram id is queued in the socket and decodes to a Request DiscoveryPacket
RequestQueued(id) ==
    \E i \in DOMAIN inbox :
        /\ inbox[i].id = id
        /\ IsDiscovery(Decode[inbox[i].kind])
        /\ Decode[inbox[i].kind].packet.Type = requestDiscoveryType

Replied(id) == \E i \in DOMAIN writes : writes[i].id = id
Emitted == {t \in tasks : t.pc = "pushed"}

\* datagram id was answered, and the address it announced did not resolve or
\* went into the stream and the consumer has emptied the stream since
Settled(id) ==
    /\ Replied(id)
    /\ \E t \in tasks :
           /\ t.id = id
           /\ \/ t.pc = "failed"
              \/ t.pc = "pushed" /\ stream.buf = <<>>

\* the datagram a peer expects in reply from the instance that advertises
\* 192.168.1.255:8401, and what the peer's ParsePacket makes of it
ReplyOnWire ==
    <<"D", "Y", "L", "L", "A", "B", "L", "E", "-", "D", "I", "S", "C", "O", "V", "E", "R", "Y", CR, LF,
      "T", "Y", "P", "E", ":", " ", "R", "U", "N", "N", "I", "N", "G", "-", "A", "P", "P", CR, LF,
      "H", "O", "S", "T", ":", " ", "1", "9", "2", ".", "1", "6", "8", ".", "1", ".", "2", "5", "5",
      ":", "8", "4", "0", "1", CR, LF, CR, LF>>
PeerDecoded == ParsePacket(ReplyOnWire)

\* every WriteTo of the service carries the Response DiscoveryPacket of the
\* advertised address, no datagram is answered twice, the reply to a request
\* goes to the address the request came from, and what the stream holds or
\* has delivered is the announced address of a request, once per request
C5_Replies ==
    engine = "DiscoveryService" =>
        /\ \A i \in DOMAIN writes : writes[i].data = ReplyOnWire
        /\ PeerDecoded.err = "nil"
        /\ PeerDecoded.packet.kind = "DiscoveryPacket"
        /\ PeerDecoded.packet.Type = responseDiscoveryType
        /\ IPEqual(PeerDecoded.packet.Address, appSocket.IP)
        /\ PeerDecoded.packet.Port = appSocket.Port
        /\ \A i, j \in DOMAIN writes : writes[i].id = writes[j].id => i = j
        /\ \A t \in tasks :
               \E i \in DOMAIN writes : writes[i].id = t.id /\ writes[i].to = Source[t.kind]
        /\ Len(delivered) + Len(stream.buf) = Cardinality(Emitted)
        /\ \A i \in DOMAIN (delivered \o stream.buf) :
               \E t \in Emitted :
                   /\ IPEqual((delivered \o stream.buf)[i].IP, Decode[t.kind].packet.Address)
                   /\ (delivered \o stream.buf)[i].Port = Decode[t.kind].packet.Port

\* C5: while DiscoveryService runs, every Request DiscoveryPacket received is
\* answered with one Response DiscoveryPacket carrying appSocket, written to
\* the datagram's source, and the address it announces, when it resolves, is
\* eventually delivered on the stream
C5_ReplyAndDeliver ==
    /\ []C5_Replies
    /\ \A id \in 1..MaxDatagrams : RequestQueued(id) ~> (Settled(id) \/ ~Running)

\* the service is running, it answered peerA's request and the consumer got
\* the address the request announced
C5_RepliedAndDelivered ==
    /\ Running
    /\ \E i \in DOMAIN writes : writes[i].ok /\ writes[i].to = "peerA"
    /\ delivered = <<[IP |-> OtherAppV4, Port |-> 8401]>>

\* C6: after cancellation and the closure of the stream, no reply is written
\* for a datagram that arrived after the closure
C6_NoReplyAfterClosure ==
    (engine = "DiscoveryService" /\ cancelled /\ stream.closed) =>
        \A i \in DOMAIN writes : ~writes[i].afterClose

\* the supervisor left on cancellation, and a datagram that arrived after
\* close(discoveredNodes) was answered successfully
C6_RepliedAfterClosure ==
    /\ engine = "DiscoveryService"
    /\ retErr = "context canceled"
    /\ stream.closed
    /\ \E i \in DOMAIN writes : writes[i].afterClose /\ writes[i].ok

\* C7: after a successful bind or dial, when the supervisor has returned the
\* socket is closed and the stream was closed exactly once
C7_ExitClosesSocketAndStream ==
    /\ closeCount <= 1
    /\ (supPc = "returned" /\ conn # "none") =>
           /\ conn = "closed"
           /\ stream.closed
           /\ closeCount = 1

\* LookForNodes returned on its sender's error while ctx was cancelled as well
C7_ReturnedOnSenderError ==
    /\ engine = "LookForNodes"
    /\ supPc = "returned"
    /\ cancelled
    /\ retErr = ErrWriteToConnected
    /\ conn = "closed"
    /\ closeCount = 1

\* C8: whenever either function has returned, the stream is closed
C8_ReturnClosesStream ==
    supPc = "returned" => stream.closed

\* the socket could not be bound or dialled: the function returned and the
\* stream is open
C8_ReturnedWithOpenStream ==
    /\ supPc = "returned"
    /\ retErr \in {"bind error", "dial error"}
    /\ ~stream.closed

\* C9: once DiscoveryService has left its select after a successful bind, its
\* error is ctx's error and ctx is cancelled, or it is the read error on which
\* the receive loop ended; it is never nil
C9_TerminalError ==
    (engine = "DiscoveryService" /\ conn # "none"
        /\ supPc \in {"closeStream", "closeConn", "returned"}) =>
        /\ retErr # "nil"
        /\ \/ retErr = "context canceled" /\ cancelled
           \/ retErr = "read error" /\ rcvErr = "read error" /\ rcvPc = "done"

\* ctx was cancelled and the receive loop had reported a read error: the
\* select took the read error
C9_ReturnedReadError ==
    /\ engine = "DiscoveryService"
    /\ supPc = "returned"
    /\ cancelled
    /\ retErr = "read error"

\* C10: a failed reply write stops the receive loop
C10_WriteFailureStopsLoop ==
    engine = "DiscoveryService" =>
        ((\E i \in DOMAIN writes : ~writes[i].ok) => rcvPc \in {"report", "done"})

\* a reply write failed on the open socket and the loop went on to answer
\* the next datagram
C10_RepliedAfterFailedWrite ==
    /\ engine = "DiscoveryService"
    /\ conn = "open"
    /\ Len(writes) = 2
    /\ ~writes[1].ok
    /\ writes[2].ok

\* the receive loop reads, from the open socket, a datagram that fails to
\* decode or decodes to something other than a DiscoveryPacket
BadRead ==
    /\ rcvPc = "read"
    /\ conn = "open"
    /\ conn' = "open"
    /\ inbox # <<>>
    /\ inbox' = Tail(inbox)
    /\ ~IsDiscovery(Decode[Head(inbox).kind])

\* C11: in both receive loops, reading a datagram that does not decode to a
\* DiscoveryPacket writes no reply, starts no resolution task, emits nothing
\* and leaves the loop at its next read with no datagram in hand, so what
\* follows is handled as if the bad datagram had never come; every reply and
\* every resolution task is for a datagram that decoded to a DiscoveryPacket
C11_BadDatagramDropped ==
    [][/\ BadRead =>
            /\ UNCHANGED <<writes, tasks, stream, delivered, cur, rcvErr, closeChannel>>
            /\ rcvPc' = "read"
            /\ cur = NoDatagram
       /\ writes' # writes =>
            /\ writes' = Append(writes, writes'[Len(writes')])
            /\ writes'[Len(writes')].id = cur.id
            /\ cur.kind \in DOMAIN Source
            /\ IsDiscovery(Decode[cur.kind])
       /\ \A t \in tasks' : IsDiscovery(Decode[t.kind])]_vars

\* the service dropped the first datagram, which was not a DiscoveryPacket,
\* kept reading, and answered the second one
C11_AnsweredAfterBadDatagram ==
    /\ engine = "DiscoveryService"
    /\ conn = "open"
    /\ rcvPc = "read"
    /\ arrived = 2
    /\ inbox = <<>>
    /\ Len(writes) = 1
    /\ writes[1].id = 2
    /\ writes[1].ok
    /\ \A t \in tasks : t.id = 2

\* C12: the service's receive loop never waits on the stream.  No step that
\* puts an address into the stream is a step of the receive loop, and a
\* Request datagram queued while the stream is full is read and answered for
\* as long as the service runs, whether or not a consumer ever reads the stream
C12_IngestionNotStalled ==
    /\ [][Len(stream'.buf) > Len(stream.buf) => UNCHANGED <<rcvPc, cur, inbox, writes>>]_vars
    /\ \A id \in 1..MaxDatagrams :
           (RequestQueued(id) /\ Len(stream.buf) = ChanCap) ~> (Replied(id) \/ ~Running)

\* the stream is full, nothing was ever consumed, the task of a later request
\* waits to push, and that request was answered
C12_AnsweredWhileStreamFull ==
    /\ Running
    /\ Len(stream.buf) = ChanCap
    /\ delivered = <<>>
    /\ \E t \in tasks :
           /\ t.pc = "run"
           /\ theirAppSocket(t).err = "nil"
           /\ \E i \in DOMAIN writes : writes[i].id = t.id /\ writes[i].ok
           /\ \A u \in Emitted : u.id < t.id

\* C13: the sender loop of LookForNodes puts a Request DiscoveryPacket on the
\* wire when it starts and after every wait; it ends only on a send that
\* failed, which with a usable socket comes after at least one request went
\* out, and when the sender loop is the only thing that ended, LookForNodes
\* returns the sender's error
C13_SenderSendsRequests ==
    engine = "LookForNodes" =>
        /\ sndPc \in {"report", "done"} =>
               (sends >= 1 \/ sndErr = "use of closed network connection")
        /\ (supPc = "returned" /\ sndPc = "done" /\ ~cancelled /\ rcvPc = "read") =>
               retErr = sndErr

\* LookForNodes returned the error of its sender loop's first WriteToUDP
\* without ctx being cancelled: no request was ever sent
C13_NoRequestEverSent ==
    /\ engine = "LookForNodes"
    /\ supPc = "returned"
    /\ ~cancelled
    /\ sndPc = "done"
    /\ sends = 0
    /\ retErr = ErrWriteToConnected

\* the receive loop of LookForNodes reads a datagram from the open socket
LookReads ==
    /\ engine = "LookForNodes"
    /\ rcvPc = "read"
    /\ conn = "open"
    /\ conn' = "open"
    /\ inbox # <<>>
    /\ inbox' = Tail(inbox)

\* C14: in LookForNodes, every datagram read that decodes to a DiscoveryPacket,
\* Request or Response, starts exactly one resolution task and the loop goes
\* on reading; tasks start in no other way; nothing is ever written to the
\* socket by the receive loop; a read error ends the loop, and the function
\* returns ctx's error, the sender's error or the read error, the read error
\* when the receive loop is the only one that ended
C14_LookReceiveLoop ==
    /\ [](engine = "LookForNodes" =>
            /\ writes = <<>>
            /\ rcvErr # "nil" => rcvPc \in {"report", "done"}
            /\ (supPc \in {"closeStream", "closeConn", "returned"} /\ conn # "none") =>
                   \/ retErr = "context canceled" /\ cancelled
                   \/ retErr = sndErr /\ sndErr # "nil" /\ sndPc = "done"
                   \/ retErr = rcvErr /\ rcvErr # "nil" /\ rcvPc = "done"
            /\ (supPc = "returned" /\ rcvPc = "done" /\ ~cancelled /\ sndPc # "done") =>
                   retErr = rcvErr)
    /\ [][engine = "LookForNodes" =>
            /\ (LookReads /\ IsDiscovery(Decode[Head(inbox).kind])) =>
                   /\ Spawn(Head(inbox)) \notin tasks
                   /\ tasks' = tasks \cup {Spawn(Head(inbox))}
                   /\ rcvPc' = "read"
            /\ Cardinality(tasks') > Cardinality(tasks) =>
                   (LookReads /\ IsDiscovery(Decode[Head(inbox).kind]))
            /\ rcvPc \in {"report", "done"} => Cardinality(tasks') = Cardinality(tasks)]_vars

\* LookForNodes started a task for a Request and one for a Response, wrote
\* nothing, and returned the read error on which its receive loop ended
C14_ReturnedReadErrorAfterBothKinds ==
    /\ engine = "LookForNodes"
    /\ supPc = "returned"
    /\ retErr = "read error"
    /\ rcvPc = "done"
    /\ writes = <<>>
    /\ \E t, u \in tasks :
           /\ Decode[t.kind].packet.Type = requestDiscoveryType
           /\ Decode[u.kind].packet.Type = responseDiscoveryType

\* every loop the function started has ended
LoopsEnded == rcvPc \in {"idle", "done"} /\ sndPc \in {"idle", "done"}

\* C15: once DiscoveryService or LookForNodes has returned, its receive loop
\* and its sender loop end (or the process has died of a panic).  Cancelling
\* ctx moves no loop; a loop ends only on the error of a socket call; on the
\* closed socket a read can only fail; and a loop that reports its error
\* always finds room in its channel, whether or not the supervisor still waits
C15_LoopsEndAfterReturn ==
    /\ (supPc = "returned") ~> (LoopsEnded \/ panicked)
    /\ [](/\ rcvPc \in {"report", "done"} => rcvErr # "nil"
          /\ sndPc \in {"report", "done"} => sndErr # "nil"
          /\ rcvPc = "report" => closeChannel.buf = <<>>
          /\ sndPc = "report" => closeSenderChannel.buf = <<>>)
    /\ [][/\ cancelled' # cancelled => UNCHANGED <<rcvPc, sndPc, conn>>
          /\ (conn = "closed" /\ rcvPc = "read" /\ rcvPc' # rcvPc) =>
                 (rcvPc' = "report" /\ rcvErr' = "use of closed network connection")]_vars

\* LookForNodes returned on cancellation while both loops were running, and
\* both loops have ended since, each on the error of its socket call
C15_BothLoopsEndedAfterCancel ==
    /\ engine = "LookForNodes"
    /\ supPc = "returned"
    /\ retErr = "context canceled"
    /\ rcvPc = "done"
    /\ rcvErr = "use of closed network connection"
    /\ sndPc = "done"
    /\ closeSenderChannel.buf # <<>>
    /\ closeChannel.buf # <<>>
    /\ ~panicked

\* a call of readUntil on the buffer returns: its result is the last of chunks'
ReadUntilReturns == cpc' = "lexing" /\ Len(chunks') = Len(chunks) + 1
EndsWithDelim(c) == Len(c) >= 2 /\ SubSeq(c, Len(c) - 1, Len(c)) = headerSeparator

\* C16: when the unread bytes contain CR LF, readUntil returns a nil error
\* and the unread bytes up to and including the first CR LF: the result and
\* the bytes left unread make up the unread bytes of before, the result ends
\* with CR LF and holds CR LF nowhere before its end
C16_StopsAtFirstDelimiter ==
    [][(ReadUntilReturns /\ Index(buffer, headerSeparator) > 0) =>
          /\ lexErr' = "nil"
          /\ chunks'[Len(chunks')] \o buffer' = buffer
          /\ EndsWithDelim(chunks'[Len(chunks')])
          /\ \A i \in 1..(Len(chunks'[Len(chunks')]) - 2) :
                 SubSeq(chunks'[Len(chunks')], i, i + 1) # headerSeparator]_vars

\* readUntil went over a CR that no LF follows and stopped at the CR LF
\* after it, leaving the letter behind it unread
C16_StoppedAfterLoneCR ==
    /\ cpc = "lexing"
    /\ original = <<CR, CR, LF, "a">>
    /\ chunks = <<(<<CR, CR, LF>>)>>
    /\ buffer = <<"a">>
    /\ lexErr = "nil"

\* C17: when the unread bytes contain no CR LF, readUntil returns all of
\* them, none dropped and none added, with io.EOF, and leaves the buffer
\* empty; on an exhausted buffer that is an empty result with io.EOF
C17_ExhaustedReturnsRest ==
    [][(ReadUntilReturns /\ Index(buffer, headerSeparator) = 0) =>
          /\ lexErr' = "EOF"
          /\ chunks'[Len(chunks')] = buffer
          /\ buffer' = <<>>]_vars

\* after a chunk that ended with CR LF, the unread LF CR came back whole with
\* io.EOF
C17_ReturnedTailWithEOF ==
    /\ cpc = "lexing"
    /\ original = <<CR, LF, LF, CR>>
    /\ chunks = <<(<<CR, LF>>), (<<LF, CR>>)>>
    /\ buffer = <<>>
    /\ lexErr = "EOF"

\* C18: the chunks that repeated calls of readUntil return, followed by the
\* bytes still unread, are the buffer's original contents; every chunk but
\* the last one returned ends with CR LF, and the last one does unless the
\* call reported io.EOF; after io.EOF nothing is left unread
C18_ChunksPartitionBuffer ==
    cpc = "lexing" =>
        /\ Join(chunks, <<>>) \o buffer = original
        /\ \A i \in 1..Len(chunks) : (i < Len(chunks) \/ lexErr = "nil") => EndsWithDelim(chunks[i])
        /\ lexErr = "EOF" => buffer = <<>>

\* a serialized discovery packet was read to its end: three lines, the empty
\* line, and the empty result of the call that reported io.EOF
C18_ReadPacketToEnd ==
    /\ cpc = "lexing"
    /\ original = SampleDiscovery
    /\ Len(chunks) = 5
    /\ chunks[4] = headerSeparator
    /\ chunks[5] = <<>>
    /\ lexErr = "EOF"

\* the first line of the buffer parsed, without the CR LF that ends it, and
\* the three identifiers
FirstLine == SubSeq(original, 1, Index(original, headerSeparator) - 1)
Identifiers == {discoveryIdentifier, requestActionIdentifier, responseActionIdentifier}

\* C19: of a buffer with a first line, ParsePacket takes the branch of a
\* packet variant exactly when the first line without its one terminating
\* CR LF is one of the three identifiers, byte for byte; for every other
\* first line, an identifier followed by further CR or LF bytes among them,
\* it returns the unknown-identifier error and no packet
C19_ExactIdentifierDispatch ==
    (cpc = "parsed" /\ Index(original, headerSeparator) > 0) =>
        /\ FirstLine \in Identifiers => parsed.err # "malformed packet: identifier not knwon"
        /\ FirstLine \notin Identifiers =>
               /\ parsed.err = "malformed packet: identifier not knwon"
               /\ parsed.packet = NilPacket

\* the first line DYLLABLE-DISCOVERY CR, ended by CR LF, was taken for the
\* discovery identifier and the packet after it was returned
C19_ParsedIdentifierWithExtraCR ==
    /\ cpc = "parsed"
    /\ FirstLine = discoveryIdentifier \o <<CR>>
    /\ parsed.err = "nil"
    /\ parsed.packet.kind = "DiscoveryPacket"

\* the buffer parsed has the discovery identifier as its first line and a
\* complete header block after it: readHeaders finds its empty line
DiscoveryHeadersComplete ==
    /\ Index(original, headerSeparator) > 0
    /\ FirstLine = discoveryIdentifier
    /\ readHeaders(readUntil(original, headerSeparator).rest).err = "nil"
\* no line of the buffer starts with the header's name, colon and space
TypeAbsent == Index(original, headerSeparator \o TypeHeaderPrefix) = 0
HostAbsent == Index(original, headerSeparator \o HostHeaderPrefix) = 0

\* C20: of a discovery packet with a complete header block in which TYPE or
\* HOST is absent, whatever else is present, ParsePacket returns no packet
\* and an error that names a header that is absent
C20_MissingHeaderNamed ==
    (cpc = "parsed" /\ DiscoveryHeadersComplete /\ (TypeAbsent \/ HostAbsent)) =>
        /\ parsed.packet = NilPacket
        /\ \/ parsed.err = "malformed packet: TYPE header not found" /\ TypeAbsent
           \/ parsed.err = "malformed packet: HOST header not found" /\ HostAbsent

\* a discovery packet with the headers X, TYPE and type but no HOST was
\* refused for its missing HOST header
C20_RefusedForMissingHost ==
    /\ cpc = "parsed"
    /\ DiscoveryHeadersComplete
    /\ ~TypeAbsent
    /\ HostAbsent
    /\ Index(original, <<"X", ":", " ", "1">>) > 0
    /\ Index(original, <<"t", "y", "p", "e">>) > 0
    /\ parsed = Return(NilPacket, "malformed packet: HOST header not found")

\* ---------------------------------------------------------------------
\* bare line feeds in a discovery packet

\* the text with every LF that does not follow a CR written as CR LF
Restored ==
    LET bare == {i \in DOMAIN original :
                     original[i] = LF /\ (i = 1 \/ original[i - 1] # CR)}
        \* where byte i of the text stands after the CRs are put in
        at(i) == i + Cardinality({j \in bare : j <= i})
    IN  [k \in 1..(Len(original) + Cardinality(bare)) |->
             IF \E i \in DOMAIN original : at(i) = k
             THEN original[CHOOSE i \in DOMAIN original : at(i) = k]
             ELSE CR]

\* the parsed buffer is a serialized discovery packet, one that parses back
\* to itself, with at least one of its line terminators written as a bare LF
BareLFVariant ==
    /\ Restored # original
    /\ LET valid == ParsePacket(Restored)
       IN  /\ valid.err = "nil"
           /\ valid.packet.kind = "DiscoveryPacket"
           /\ Bytes(valid.packet) = Restored

\* C21: a valid serialized discovery packet in which one or more of the four
\* CR LF line terminators is replaced by a bare LF is refused by ParsePacket:
\* an error is returned and no packet
C21_BareLFRefused ==
    (cpc = "parsed" /\ BareLFVariant) =>
        parsed.err # "nil" /\ parsed.packet = NilPacket

\* the terminator of the HOST line alone was a bare LF: the header lines are
\* read, and the end of the buffer is reported as the error
C21_RefusedBareLFAfterHost ==
    /\ cpc = "parsed"
    /\ BareLFVariant
    /\ original = SubSeq(SampleDiscovery, 1, Len(SampleDiscovery) - 4)
                      \o <<LF, CR, LF>>
    /\ parsed.err = "EOF"
    /\ parsed.packet = NilPacket

\* ---------------------------------------------------------------------
\* header values as they stand on the wire

\* the lines of s that a CR LF ends, in order, without that CR LF
RECURSIVE LinesOf(_)
LinesOf(s) ==
    LET i == Index(s, headerSeparator)
    IN  IF i = 0 THEN <<>>
        ELSE <<SubSeq(s, 1, i - 1)>> \o LinesOf(SubSeq(s, i + 2, Len(s)))
WireLines == LinesOf(original)

\* the buffer parsed has the given first line and a header block after it
\* that an empty line ends, each line of the block holding colon and space
HasHeaderBlock(identifier) ==
    /\ Len(WireLines) >= 2
    /\ WireLines[1] = identifier
    /\ \E e \in 2..Len(WireLines) :
           /\ WireLines[e] = <<>>
           /\ \A i \in 2..(e - 1) : Index(WireLines[i], ColonSpace) > 0
\* the values of the header lines of that block under a name: what stands
\* between the first colon and space of the line and the CR LF that ends it
WireValues(name) ==
    LET e == CHOOSE n \in 2..Len(WireLines) :
                 WireLines[n] = <<>> /\ \A i \in 2..(n - 1) : WireLines[i] # <<>>
    IN  {SubSeq(WireLines[i], Len(name) + 3, Len(WireLines[i])) :
             i \in {j \in 2..(e - 1) : HasPrefix(WireLines[j], name \o ColonSpace)}}
\* the header stands once in the block, and its value
OnWire(name) == Cardinality(WireValues(name)) = 1
WireValue(name) == CHOOSE v \in WireValues(name) : TRUE

\* a HOST value made of a literal IP, a colon and a decimal port of 16 bits
ValidHost(v) ==
    /\ SplitHostPort(v).err = "nil"
    /\ ParseIP(SplitHostPort(v).host) # NilIP
    /\ ParseUint(SplitHostPort(v).port, 16).err = "nil"

\* the buffer parsed is a discovery packet with one TYPE header and one HOST
\* header, the HOST value valid
DiscoveryWithValidHost ==
    /\ HasHeaderBlock(discoveryIdentifier)
    /\ OnWire(KeyTYPE)
    /\ OnWire(KeyHOST)
    /\ ValidHost(WireValue(KeyHOST))
ParsedDiscoveryOfType(ty) ==
    /\ parsed.err = "nil"
    /\ parsed.packet.kind = "DiscoveryPacket"
    /\ parsed.packet.Type = ty

\* C22: of a discovery packet with a valid HOST, ParsePacket returns a
\* packet of the Request kind exactly when the TYPE value, the text between
\* the first colon and space of the line and the CR LF that ends it, is
\* DISCOVERY, a packet of the Response kind exactly when it is RUNNING-APP,
\* and an error for every other value; HOST: 127.0.0.1:8400 with
\* TYPE: RUNNING-APP gives address 127.0.0.1, port 8400, kind Response
C22_TypeMatchedExactly ==
    (cpc = "parsed" /\ DiscoveryWithValidHost) =>
        /\ ParsedDiscoveryOfType(requestDiscoveryType)
               <=> WireValue(KeyTYPE) = requestDiscoveryType
        /\ ParsedDiscoveryOfType(responseDiscoveryType)
               <=> WireValue(KeyTYPE) = responseDiscoveryType
        /\ WireValue(KeyTYPE) \notin {requestDiscoveryType, responseDiscoveryType}
               => parsed.err # "nil" /\ parsed.packet = NilPacket
        /\ (/\ WireValue(KeyTYPE) = responseDiscoveryType
            /\ WireValue(KeyHOST) = IPString(LoopbackV4) \o <<":">> \o Itoa(8400))
               => parsed.packet = NewResponseDiscoveryPacket(LoopbackV4, 8400)

\* the TYPE value DISCOVERY CR, on a line that CR LF ends, was taken for
\* DISCOVERY and a packet of the Request kind was returned
C22_RequestFromTypeWithExtraCR ==
    /\ cpc = "parsed"
    /\ DiscoveryWithValidHost
    /\ WireValue(KeyTYPE) = requestDiscoveryType \o <<CR>>
    /\ ParsedDiscoveryOfType(requestDiscoveryType)

\* ---------------------------------------------------------------------
\* the HOST value of a discovery packet

\* the decimal number a text of digits writes
RECURSIVE Decimal(_)
Decimal(s) ==
    IF s = <<>> THEN 0
    ELSE Decimal(SubSeq(s, 1, Len(s) - 1)) * 10 + DigitVal(s[Len(s)])
\* what stands before and after the last colon of a HOST value
HostText(v) == SubSeq(v, 1, LastIndexByte(v, ":") - 1)
PortText(v) == SubSeq(v, LastIndexByte(v, ":") + 1, Len(v))
\* a literal IP: an address without colons, or an address in brackets
LiteralIP(h) ==
    \/ IndexByte(h, ":") = 0 /\ ParseIP(h) # NilIP
    \/ /\ Len(h) >= 2
       /\ h[1] = "[" /\ h[Len(h)] = "]"
       /\ ParseIP(SubSeq(h, 2, Len(h) - 1)) # NilIP
\* a literal IP, a colon and a decimal port from 0 to 65535
WellFormedHost(v) ==
    /\ LastIndexByte(v, ":") > 0
    /\ LiteralIP(HostText(v))
    /\ PortText(v) # <<>>
    /\ \A i \in DOMAIN PortText(v) : IsDigit(PortText(v)[i])
    /\ Decimal(PortText(v)) <= 65535

\* C23: of a discovery packet whose HOST value is not a literal IP, a colon
\* and a decimal port from 0 to 65535 (a host name, no port, a port that is
\* not a number or is above 65535) ParsePacket returns an error and no
\* packet, and the Port of a packet it returns is the decimal number of the
\* HOST value, never that number modulo 2^16
C23_HostValueChecked ==
    (cpc = "parsed" /\ HasHeaderBlock(discoveryIdentifier) /\ OnWire(KeyHOST)) =>
        /\ ~WellFormedHost(WireValue(KeyHOST))
               => parsed.err # "nil" /\ parsed.packet = NilPacket
        /\ parsed.err = "nil"
               => parsed.packet.Port = Decimal(PortText(WireValue(KeyHOST)))

\* the HOST value 127.0.0.1:8400 CR, on a line that CR LF ends, was taken
\* for 127.0.0.1:8400 and a packet with port 8400 was returned
C23_AcceptedHostWithExtraCR ==
    /\ cpc = "parsed"
    /\ HasHeaderBlock(discoveryIdentifier)
    /\ OnWire(KeyHOST)
    /\ WireValue(KeyHOST) = IPString(LoopbackV4) \o <<":", "8", "4", "0", "0", CR>>
    /\ parsed.err = "nil"
    /\ parsed.packet = NewRequestDiscoveryPacket(LoopbackV4, 8400)

\* ---------------------------------------------------------------------
\* the headers of a request-action packet

\* the hyphenated text of a UUID: 36 bytes, hyphens at 9, 14, 19 and 24,
\* hexadecimal digits elsewhere
CanonicalUUID(v) ==
    /\ Len(v) = 36
    /\ \A i \in 1..36 : IF i \in {9, 14, 19, 24} THEN v[i] = "-" ELSE IsHex(v[i])

\* C24: ParsePacket returns a request-action packet only when the
\* REQUEST-UUID value is the hyphenated hexadecimal text of 36 bytes; a value
\* that is too short, 32 digits without hyphens, the text in braces or the
\* text after urn:uuid: gets an error and no packet
C24_OnlyCanonicalUUID ==
    (cpc = "parsed" /\ HasHeaderBlock(requestActionIdentifier) /\ OnWire(KeyREQUESTUUID)) =>
        (~CanonicalUUID(WireValue(KeyREQUESTUUID))
             => parsed.err # "nil" /\ parsed.packet = NilPacket)

\* the REQUEST-UUID value of 32 digits without hyphens was parsed and a
\* packet with that UUID was returned
C24_AcceptedUUIDWithoutHyphens ==
    /\ cpc = "parsed"
    /\ HasHeaderBlock(requestActionIdentifier)
    /\ OnWire(KeyREQUESTUUID)
    /\ WireValue(KeyREQUESTUUID) = HexBytes(UUIDa)
    /\ parsed.err = "nil"
    /\ parsed.packet.kind = "RequestActionPacket"
    /\ parsed.packet.RequestUUID = UUIDa

\* an unsigned decimal number from 0 to 255: digits only, at least one
DecimalByte(v) ==
    /\ v # <<>>
    /\ \A i \in DOMAIN v : IsDigit(v[i])
    /\ Decimal(v) <= 255

\* C25: ParsePacket returns a request-action packet only when the ACTION-ID
\* header is there and its value is an unsigned decimal number from 0 to
\* 255; without the header, with 256 or more, with a sign or with a byte
\* that is no digit it returns an error, and the ActionId of a packet it
\* returns is the number on the wire, never that number modulo 256
C25_ActionIdChecked ==
    (cpc = "parsed" /\ HasHeaderBlock(requestActionIdentifier)) =>
        /\ ~(OnWire(KeyACTIONID) /\ DecimalByte(WireValue(KeyACTIONID)))
               => parsed.err # "nil" /\ parsed.packet = NilPacket
        /\ parsed.err = "nil"
               => parsed.packet.ActionId = Decimal(WireValue(KeyACTIONID))

\* the ACTION-ID value 1 CR, on a line that CR LF ends, was taken for 1 and
\* a packet with that action was returned
C25_AcceptedActionIdWithExtraCR ==
    /\ cpc = "parsed"
    /\ HasHeaderBlock(requestActionIdentifier)
    /\ OnWire(KeyACTIONID)
    /\ WireValue(KeyACTIONID) = <<"1", CR>>
    /\ parsed.err = "nil"
    /\ parsed.packet.kind = "RequestActionPacket"
    /\ parsed.packet.ActionId = 1

\* the bytes of the buffer parsed after the empty line that ends its header
\* block
AfterHeaders ==
    SubSeq(original, Index(original, headerSeparator \o headerSeparator) + 4, Len(original))
\* the buffer parsed is a request-action packet with both headers, the
\* REQUEST-UUID in hyphenated form and the ACTION-ID a number from 0 to 255
RequestWithValidHeaders ==
    /\ HasHeaderBlock(requestActionIdentifier)
    /\ OnWire(KeyREQUESTUUID) /\ CanonicalUUID(WireValue(KeyREQUESTUUID))
    /\ OnWire(KeyACTIONID) /\ DecimalByte(WireValue(KeyACTIONID))
\* a request-action packet was returned, with the UUID and the action of
\* the headers
ParsedRequestOfHeaders ==
    /\ parsed.err = "nil"
    /\ parsed.packet.kind = "RequestActionPacket"
    /\ UUIDString(parsed.packet.RequestUUID)
           = [i \in 1..36 |-> IF WireValue(KeyREQUESTUUID)[i] \in Range(UpperHexDigits)
                                      /\ ~IsDigit(WireValue(KeyREQUESTUUID)[i])
                              THEN HexDigits[IndexByte(UpperHexDigits, WireValue(KeyREQUESTUUID)[i])]
                              ELSE WireValue(KeyREQUESTUUID)[i]]
    /\ parsed.packet.ActionId = Decimal(WireValue(KeyACTIONID))

\* C26: of a request-action packet with valid headers and nothing after the
\* empty line that ends them, ParsePacket returns no error and a packet
\* whose Parameters are nil: the io.EOF of the read of the optional body is
\* not returned
C26_NoBodyNoParameters ==
    (cpc = "parsed" /\ RequestWithValidHeaders /\ AfterHeaders = <<>>) =>
        ParsedRequestOfHeaders /\ parsed.packet.Parameters = NilMap

\* a request-action packet that came off the wire, its buffer ending with
\* the empty line of its headers, was parsed without parameters
C26_ParsedRequestWithoutBody ==
    /\ cpc = "parsed"
    /\ packet = NilPacket
    /\ RequestWithValidHeaders
    /\ AfterHeaders = <<>>
    /\ readUntil(AfterHeaders, headerSeparator).err = "EOF"
    /\ parsed = Return(NewRequestActionPacket(UUIDa, 255, NilMap), "nil")

\* the first line of the bytes after the headers, with the CR LF that ends
\* it, and whether there is one
HasBodyLine == Index(AfterHeaders, headerSeparator) > 0
BodyLine == SubSeq(AfterHeaders, 1, Index(AfterHeaders, headerSeparator) + 1)
\* that line is the text of a JSON object
BodyIsObject ==
    HasBodyLine /\ Unmarshal(BodyLine).err = "nil" /\ ~Unmarshal(BodyLine).m.isNil

\* C27: of a request-action packet with valid headers and bytes after the
\* empty line that ends them, ParsePacket returns a packet only if those
\* bytes are a line holding the text of a JSON object, and the Parameters
\* are then that object; for bytes that are no such line, a body cut off
\* before its CR LF among them, it returns an error and no packet
C27_BodyMustBeObjectLine ==
    (cpc = "parsed" /\ RequestWithValidHeaders /\ AfterHeaders # <<>>) =>
        IF BodyIsObject
        THEN ParsedRequestOfHeaders /\ parsed.packet.Parameters = Unmarshal(BodyLine).m
        ELSE parsed.err # "nil" /\ parsed.packet = NilPacket

\* a body that is the text of an object cut off before its CR LF was left
\* out: a packet without parameters was returned, and no error
C27_TruncatedBodyDropped ==
    /\ cpc = "parsed"
    /\ RequestWithValidHeaders
    /\ AfterHeaders = <<"{", "\"", "k", "\"", ":", "t", "r", "u", "e", "}">>
    /\ ~HasBodyLine
    /\ parsed = Return(NewRequestActionPacket(UUIDa, 1, NilMap), "nil")

\* ---------------------------------------------------------------------
\* the response-action packet

ApprovedTokens == {<<"T", "r", "u", "e">>, <<"F", "a", "l", "s", "e">>}
\* a response-action packet without REQUEST-UUID or without APPROVED, with a
\* REQUEST-UUID that is not in hyphenated form, or with an APPROVED value
\* that is neither True nor False
DefectiveResponse ==
    /\ HasHeaderBlock(responseActionIdentifier)
    /\ \/ WireValues(KeyREQUESTUUID) = {}
       \/ WireValues(KeyAPPROVED) = {}
       \/ \E v \in WireValues(KeyREQUESTUUID) : ~CanonicalUUID(v)
       \/ \E v \in WireValues(KeyAPPROVED) : v \notin ApprovedTokens

\* C28: ParsePacket returns an error for every packet with the first line
\* DYLLABLE-ACTION-RESPONSE that has no REQUEST-UUID header, no APPROVED
\* header, a REQUEST-UUID that is not in hyphenated form, or an APPROVED
\* value other than True and False (true and FAlse among them)
C28_DefectiveResponseRefused ==
    (cpc = "parsed" /\ DefectiveResponse) => parsed.err # "nil"

\* a response-action packet without the APPROVED header was parsed: neither
\* a packet nor an error was returned
C28_NothingReturnedWithoutApproved ==
    /\ cpc = "parsed"
    /\ DefectiveResponse
    /\ OnWire(KeyREQUESTUUID)
    /\ WireValues(KeyAPPROVED) = {}
    /\ parsed = Return(NilPacket, "nil")

\* ---------------------------------------------------------------------
\* the text of the action packets

\* a packet of the given variant was built and serialized: original holds
\* its bytes
Serialized(kind) == cpc \in {"wire", "lexing", "parsed"} /\ packet.kind = kind
\* the bytes serialized are these lines, each ended by CR LF, and no more
LinesAre(lines) == WireLines = lines /\ original = Join(lines, headerSeparator) \o headerSeparator

\* C29: the text of a RequestActionPacket is the identifier line, the
\* REQUEST-UUID line, the ACTION-ID line and an empty line; when, and only
\* when, Parameters is not nil, the JSON line and one more empty line follow
\* (an empty map is written as {}), and with nil Parameters the text ends
\* after the empty line of the headers.  Bytes() are the bytes of String()
C29_RequestActionLayout ==
    Serialized("RequestActionPacket") =>
        LET head == <<requestActionIdentifier,
                      KeyREQUESTUUID \o ColonSpace \o UUIDString(packet.RequestUUID),
                      KeyACTIONID \o ColonSpace \o Itoa(packet.ActionId),
                      <<>>>>
        IN  /\ IF packet.Parameters.isNil
               THEN LinesAre(head)
               ELSE LinesAre(head \o <<Marshal(packet.Parameters), <<>>>>)
            /\ packet.Parameters = MakeMap(<<>>) => WireLines[5] = <<"{", "}">>
            /\ original = RequestActionPacketString(packet)

\* the packet of action 1 with an empty map of parameters was serialized:
\* six lines, the fifth of them {}
C29_SerializedEmptyMap ==
    /\ Serialized("RequestActionPacket")
    /\ packet = NewRequestActionPacket(UUIDa, 1, MakeMap(<<>>))
    /\ Len(WireLines) = 6
    /\ original =
        <<"D", "Y", "L", "L", "A", "B", "L", "E", "-", "A", "C", "T", "I", "O", "N",
          "-", "R", "E", "Q", "U", "E", "S", "T", CR, LF, "R", "E", "Q", "U", "E",
          "S", "T", "-", "U", "U", "I", "D", ":", " ", "1", "2", "3", "4", "5", "6",
          "7", "8", "-", "9", "a", "b", "c", "-", "d", "e", "f", "0", "-", "0", "1",
          "2", "3", "-", "4", "5", "6", "7", "8", "9", "a", "b", "c", "d", "e", "f",
          CR, LF, "A", "C", "T", "I", "O", "N", "-", "I", "D", ":", " ", "1", CR, LF,
          CR, LF, "{", "}", CR, LF, CR, LF>>

\* C30: the text of a ResponseActionPacket is the line
\* DYLLABLE-ACTION-RESPONSE, the REQUEST-UUID line, the line APPROVED: True
\* when Approved is true and APPROVED: False when it is false, and an empty
\* line, followed by the JSON line of the content and one more empty line
\* when, and only when, Content is not nil
C30_ResponseActionLayout ==
    Serialized("ResponseActionPacket") =>
        LET head == <<responseActionIdentifier,
                      KeyREQUESTUUID \o ColonSpace \o UUIDString(packet.RequestUUID),
                      KeyAPPROVED \o ColonSpace
                          \o (IF packet.Approved THEN <<"T", "r", "u", "e">>
                              ELSE <<"F", "a", "l", "s", "e">>),
                      <<>>>>
        IN  IF packet.Content.isNil
            THEN LinesAre(head)
            ELSE LinesAre(head \o <<Marshal(packet.Content), <<>>>>)

\* the refusal with the content k: true was serialized
C30_SerializedRefusalWithContent ==
    /\ Serialized("ResponseActionPacket")
    /\ packet = NewResponseActionPacket(UUIDa, FALSE, OneEntry(KeyK, JBool(TRUE)))
    /\ Len(WireLines) = 6
    /\ original =
        <<"D", "Y", "L", "L", "A", "B", "L", "E", "-", "A", "C", "T", "I", "O", "N",
          "-", "R", "E", "S", "P", "O", "N", "S", "E", CR, LF, "R", "E", "Q", "U",
          "E", "S", "T", "-", "U", "U", "I", "D", ":", " ", "1", "2", "3", "4", "5",
          "6", "7", "8", "-", "9", "a", "b", "c", "-", "d", "e", "f", "0", "-", "0",
          "1", "2", "3", "-", "4", "5", "6", "7", "8", "9", "a", "b", "c", "d", "e",
          "f", CR, LF, "A", "P", "P", "R", "O", "V", "E", "D", ":", " ", "F", "a",
          "l", "s", "e", CR, LF, CR, LF, "{", "\"", "k", "\"", ":", "t", "r", "u",
          "e", "}", CR, LF, CR, LF>>

\* ---------------------------------------------------------------------
\* the text of the discovery packet

\* C31: the text of a DiscoveryPacket is the line DYLLABLE-DISCOVERY, the
\* line TYPE: with the type, the line HOST: with the address, a colon and
\* the port, and one empty line, in that order and with nothing after; the
\* type is DISCOVERY for a packet of NewRequestDiscoveryPacket and
\* RUNNING-APP for one of NewResponseDiscoveryPacket.  Bytes() are the bytes
\* of String()
C31_DiscoveryLayout ==
    Serialized("DiscoveryPacket") =>
        LET type == IF packet = NewRequestDiscoveryPacket(packet.Address, packet.Port)
                    THEN <<"D", "I", "S", "C", "O", "V", "E", "R", "Y">>
                    ELSE <<"R", "U", "N", "N", "I", "N", "G", "-", "A", "P", "P">>
        IN  /\ packet \in {NewRequestDiscoveryPacket(packet.Address, packet.Port),
                           NewResponseDiscoveryPacket(packet.Address, packet.Port)}
            /\ LinesAre(<<<<"D", "Y", "L", "L", "A", "B", "L", "E", "-", "D", "I", "S", "C", "O", "V", "E",
                            "R", "Y">>,
                          <<"T", "Y", "P", "E", ":", " ">> \o type,
                          <<"H", "O", "S", "T", ":", " ">> \o IPString(packet.Address)
                              \o <<":">> \o Itoa(packet.Port),
                          <<>>>>)
            /\ original = DiscoveryPacketString(packet)

\* the answer of 10.0.10.0 with port 65535 was serialized
C31_SerializedRunningApp ==
    /\ Serialized("DiscoveryPacket")
    /\ packet = NewResponseDiscoveryPacket(OtherAppV4, 65535)
    /\ original =
        <<"D", "Y", "L", "L", "A", "B", "L", "E", "-", "D", "I", "S", "C", "O", "V",
          "E", "R", "Y", CR, LF, "T", "Y", "P", "E", ":", " ", "R", "U", "N", "N",
          "I", "N", "G", "-", "A", "P", "P", CR, LF, "H", "O", "S", "T", ":", " ",
          "1", "0", ".", "0", ".", "1", "0", ".", "0", ":", "6", "5", "5", "3", "5",
          CR, LF, CR, LF>>

\* ---------------------------------------------------------------------
\* the resolution tasks and the closed stream

\* C32: no resolution task sends on the stream of discovered peers after
\* DiscoveryService or LookForNodes has closed it, whenever the task was
\* started and whether or not it was waiting for room in the stream: no
\* step of a task is the panic of a send on a closed channel
C32_NoSendOnClosedStream ==
    [][resolveDiscoveryPacketTCPAddress => ~panicked']_vars

\* a task that had resolved its address sent it on the stream the returning
\* function had closed, the stream being full: the send panicked
C32_TaskSentOnClosedStream ==
    /\ panicked
    /\ stream.closed
    /\ closeCount = 1
    /\ Len(stream.buf) = ChanCap
    /\ \E t \in tasks : t.pc = "run" /\ theirAppSocket(t).err = "nil"

\* ---------------------------------------------------------------------
\* readUntil and the length of the delimiter

\* C33: with a delimiter of any length from one byte on, readUntil stops
\* as soon as the last bytes read are the delimiter and returns the bytes
\* consumed, the delimiter the last of them, without failing; it reports the
\* end of the buffer when the delimiter is not in it
C33_AnyDelimiterLength ==
    cpc = "scanned" =>
        LET i == Index(original, lexDelim)
        IN  /\ lexErr \in {"nil", "EOF"}
            /\ i > 0 => /\ lexErr = "nil"
                        /\ chunks[1] = SubSeq(original, 1, i + Len(lexDelim) - 1)
            /\ i = 0 => lexErr = "EOF" /\ chunks[1] = original

\* readUntil was called with the delimiter LF on a buffer that holds an LF:
\* the window of one byte was indexed at its second place
C33_PanickedOnOneByteDelimiter ==
    /\ cpc = "scanned"
    /\ lexDelim = <<LF>>
    /\ Index(original, lexDelim) > 0
    /\ lexErr = "panic: index out of range"

\* ---------------------------------------------------------------------
\* the end of the buffer as an error of ParsePacket

\* C34: ParsePacket never returns io.EOF, the status of readUntil at the
\* end of the buffer, as its error: a buffer without any CR LF and a header
\* block that ends before its empty line get the unknown-identifier error
\* or a malformed-packet error
C34_NeverReturnsEOF ==
    cpc = "parsed" =>
        /\ parsed.err # "EOF"
        /\ (Index(original, headerSeparator) = 0
              \/ (FirstLine = discoveryIdentifier /\ ~HasHeaderBlock(discoveryIdentifier)))
               => /\ parsed.err # "nil"
                  /\ parsed.packet = NilPacket

\* the buffer DYLLABLE-DISCOVERY, without a CR LF, was parsed: io.EOF
C34_ReturnedEOFWithoutCRLF ==
    /\ cpc = "parsed"
    /\ original = discoveryIdentifier
    /\ Index(original, headerSeparator) = 0
    /\ parsed = Return(NilPacket, "EOF")

\* ---------------------------------------------------------------------
\* the service's replies and its resolution tasks

\* the datagrams the service's loop has taken from the socket
Taken == {id \in 1..arrived : \A i \in DOMAIN inbox : inbox[i].id # id}

\* the datagram kinds that decode to a DiscoveryPacket of type ty
KindsOfType(ty) ==
    {k \in DOMAIN Source : IsDiscovery(Decode[k]) /\ Decode[k].packet.Type = ty}

\* the service's tasks belong to datagrams taken from the socket that decoded
\* to a Request, one task per datagram, and the stream got one address per
\* task that pushed
TasksOfRequests ==
    engine = "DiscoveryService" =>
        /\ \A t \in tasks : t.id \in Taken /\ t.kind \in KindsOfType(requestDiscoveryType)
        /\ \A t, u \in tasks : t.id = u.id => t = u
        /\ Len(delivered) + Len(stream.buf) = Cardinality(Emitted)
        /\ Cardinality(Emitted) <= Cardinality({t.id : t \in tasks})
        /\ Cardinality({t.id : t \in tasks}) <= Cardinality(Taken)

\* the step of the service's loop that ends the handling of the DiscoveryPacket
\* in hand writes one reply, and starts one task exactly when the packet is a
\* Request; a step that leaves the loop where it is starts no task
ReplyThenTask ==
    engine = "DiscoveryService" =>
        IF rcvPc = "write" /\ rcvPc' # "write"
        THEN /\ Len(writes') = Len(writes) + 1
             /\ writes'[Len(writes')].id = cur.id
             /\ IF cur.kind \in KindsOfType(requestDiscoveryType)
                THEN \E t \in tasks' : /\ t.id = cur.id
                                       /\ t.pc = "run"
                                       /\ tasks' = tasks \cup {t}
                                       /\ t \notin tasks
                ELSE /\ cur.kind \in KindsOfType(responseDiscoveryType)
                     /\ tasks' = tasks
             /\ stream' = stream
        ELSE /\ {t.id : t \in tasks'} = {t.id : t \in tasks}
             /\ writes' = writes

\* C35: DiscoveryService writes a reply for every DiscoveryPacket it decoded,
\* of either type, and starts a resolution task only for a Request; a task
\* pushes at most one address, so the stream never got more addresses than
\* Request datagrams were taken from the socket, and a Response datagram
\* causes no push
C35_ReplyAlwaysTaskForRequest ==
    /\ []TasksOfRequests
    /\ [][ReplyThenTask]_vars

\* both datagrams were taken and answered, and one task exists and pushed:
\* the other datagram was a Response, answered without a task
C35_AnsweredResponseWithoutTask ==
    /\ engine = "DiscoveryService"
    /\ arrived = 2
    /\ Taken = {1, 2}
    /\ rcvPc = "read"
    /\ cur = NoDatagram
    /\ Len(writes) = 2
    /\ \E t \in tasks : tasks = {t} /\ t.pc = "pushed" /\ t.kind = 1
    /\ Len(delivered) + Len(stream.buf) = 1

\* ---------------------------------------------------------------------
\* truncated DiscoveryPackets

\* the serialized DiscoveryPackets of the addresses and ports of the model
DiscoveryWires ==
    {Bytes(p) : p \in {NewRequestDiscoveryPacket(a, n) : a \in Addresses, n \in Ports}
                      \cup {NewResponseDiscoveryPacket(a, n) : a \in Addresses, n \in Ports}
                      \cup {NewResponseDiscoveryPacket(OtherAppV4, 8402)}}

\* s is w cut short at some byte
ProperPrefix(s, w) == Len(s) < Len(w) /\ s = SubSeq(w, 1, Len(s))

\* the buffer parsed is a serialized DiscoveryPacket cut short
Truncated == \E w \in DiscoveryWires : ProperPrefix(original, w)

\* C36: every proper prefix of a serialized DiscoveryPacket, the empty
\* buffer included, makes ParsePacket return an error and no packet
C36_TruncatedDiscoveryRefused ==
    (cpc = "parsed" /\ Truncated) =>
        /\ parsed.err # "nil"
        /\ parsed.packet = NilPacket

\* a Response DiscoveryPacket without its last two bytes, the CR LF of the
\* empty line, was parsed and refused
C36_RefusedWithoutEmptyLine ==
    /\ cpc = "parsed"
    /\ Truncated
    /\ original \o headerSeparator = Bytes(NewResponseDiscoveryPacket(OtherAppV4, 8402))
    /\ parsed.err # "nil"
    /\ parsed.packet = NilPacket

\* ---------------------------------------------------------------------
\* the lines of a header block

\* the first line of the buffer parsed after its first that is empty, that
\* is exactly CR LF on the wire; 0 when there is none
BlockEnd ==
    IF \E e \in 2..Len(WireLines) : WireLines[e] = <<>>
    THEN CHOOSE e \in 2..Len(WireLines) :
             WireLines[e] = <<>> /\ \A i \in 2..(e - 1) : WireLines[i] # <<>>
    ELSE 0
\* the lines of the header block before that one, or all of them
BlockLines == 2..((IF BlockEnd = 0 THEN Len(WireLines) + 1 ELSE BlockEnd) - 1)
\* line i as readHeaders takes it, and where its first colon and space stand
HeaderOf(i) == TrimRight(WireLines[i], {CR, LF})
SplitAt(i) == Index(HeaderOf(i), ColonSpace)
HeaderKey(i) == SubSeq(HeaderOf(i), 1, SplitAt(i) - 1)
HeaderValue(i) == SubSeq(HeaderOf(i), SplitAt(i) + 2, Len(HeaderOf(i)))
\* a line of the block holds no colon and space
SomeLineUnsplit == \E i \in BlockLines : SplitAt(i) = 0
\* what readHeaders returns for the bytes after the first line
HeadersRead == readHeaders(SubSeq(original, Len(FirstLine) + 3, Len(original)))

\* C37: readHeaders splits each line of the header block at its first colon and
\* space into key and value, the value keeping any further colon and space,
\* and stops at the first line that is exactly CR LF, the bytes after it left
\* in the buffer; a line of the block without colon and space makes it, and
\* ParsePacket for a discovery and a request-action packet alike, fail with
\* 'invalid header line'
C37_HeaderLines ==
    (cpc = "parsed" /\ Index(original, headerSeparator) > 0) =>
        /\ SomeLineUnsplit =>
              /\ HeadersRead.err = "invalid header line"
              /\ FirstLine \in {discoveryIdentifier, requestActionIdentifier}
                     => parsed = Return(NilPacket, "invalid header line")
        /\ (~SomeLineUnsplit /\ BlockEnd # 0) =>
              /\ HeadersRead.err = "nil"
              /\ DOMAIN HeadersRead.headers = {HeaderKey(i) : i \in BlockLines}
              /\ \A i \in BlockLines :
                     (\A j \in BlockLines : j > i => HeaderKey(j) # HeaderKey(i))
                         => HeadersRead.headers[HeaderKey(i)] = HeaderValue(i)
              /\ Join(SubSeq(WireLines, 1, BlockEnd), headerSeparator) \o headerSeparator
                     \o HeadersRead.rest = original

\* a discovery packet whose first header line is TYPE:REQUEST, a colon and no
\* space, was parsed and refused as an invalid header line
C37_RefusedColonWithoutSpace ==
    /\ cpc = "parsed"
    /\ FirstLine = discoveryIdentifier
    /\ BlockEnd = 4
    /\ HeaderOf(2) = KeyTYPE \o <<":">> \o requestDiscoveryType
    /\ SomeLineUnsplit
    /\ HeadersRead.err = "invalid header line"
    /\ parsed = Return(NilPacket, "invalid header line")

\* ---------------------------------------------------------------------
\* one datagram, one parse

\* the two datagrams that are the halves of one serialized DiscoveryPacket
Halves == {k \in DOMAIN Source : \E m \in DOMAIN Source : Wire[k] \o Wire[m] = SampleDiscovery
                                                      \/ Wire[m] \o Wire[k] = SampleDiscovery}

\* the step of a receive loop that takes the oldest datagram from the open
\* socket decides by ParsePacket of that datagram's bytes, whatever was read before:
\* the service keeps it in hand when they are a DiscoveryPacket and drops it
\* otherwise, LookForNodes starts a task for it or drops it; the service's
\* buffer holds the datagram in its first places
ParsedAlone ==
    (inbox # <<>> /\ inbox' = Tail(inbox) /\ conn' = "open") =>
        LET d == Head(inbox)
            r == Decode[d.kind]
        IN  /\ engine = "DiscoveryService" =>
                /\ SubSeq(readBuffer', 1, Len(Wire[d.kind])) = Wire[d.kind]
                /\ IF IsDiscovery(r)
                   THEN /\ rcvPc' = "deadline"
                        /\ cur' = [id |-> d.id, kind |-> d.kind, src |-> d.src,
                                   afterClose |-> d.afterClose, Type |-> r.packet.Type]
                   ELSE rcvPc' = rcvPc /\ cur' = cur
                /\ writes' = writes
                /\ tasks' = tasks
            /\ engine = "LookForNodes" =>
                tasks' = IF IsDiscovery(r) THEN tasks \cup {Spawn(d)} ELSE tasks

\* a reply of the service is for the datagram in hand, which is a
\* DiscoveryPacket by itself
ReplyForWholePacket ==
    (engine = "DiscoveryService" /\ writes' # writes) =>
        /\ IsDiscovery(Decode[cur.kind])
        /\ writes'[Len(writes')].id = cur.id

\* the halves of a packet are no packet, each by itself; no task and no
\* datagram in hand belongs to one, and what the stream got came from tasks
NothingForHalves ==
    /\ Halves # {}
    /\ \A k \in Halves : ~IsDiscovery(Decode[k])
    /\ \A t \in tasks : t.kind \notin Halves
    /\ cur.kind \notin Halves
    /\ Len(delivered) + Len(stream.buf) = Cardinality(Emitted)

\* C38: each datagram is parsed on its own in both receive loops: what
\* becomes of it (reply, task or drop) follows from ParsePacket of its own
\* bytes; the two halves of a packet sent as two datagrams get no reply and
\* put nothing on the stream; bytes an earlier, longer datagram left in the
\* service's read buffer are not parsed with a later, shorter one
C38_DatagramParsedAlone ==
    /\ []NothingForHalves
    /\ [][ParsedAlone /\ ReplyForWholePacket]_vars

\* the service answered a request and then took the first 30 bytes of
\* another: the read buffer, with the bytes the request left behind them,
\* holds a whole packet, and the second datagram was dropped
C38_DroppedShortDatagramOverStaleBytes ==
    /\ engine = "DiscoveryService"
    /\ Taken = {1, 2}
    /\ readBuffer = ReadFrom(Wire[1], Wire[5])
    /\ Len(Wire[5]) < Len(Wire[1])
    /\ IsDiscovery(ParsePacket(readBuffer))
    /\ rcvPc = "read"
    /\ cur = NoDatagram
    /\ Len(writes) = 1
    /\ writes[1].id = 1
    /\ \A t \in tasks : t.id = 1

====
